---- MODULE Spec2Model ----
(***************************************************************************)
(* Verification model of the consensus/tally core of Metaverse_blockchain: *)
(*   - TallyComputer, the hash-chain accumulator                           *)
(*         (src/src/orchestration/tally/compute.rs)                        *)
(*   - PreciseFloat, the fixed-point value (src/src/math/precision.rs)     *)
(*   - Orchestrator, the vote tally (src/src/orchestration/mod.rs)         *)
(*   - TallyRecorder and QuantumStateVector                                *)
(*         (src/src/orchestration/tally/mod.rs)                            *)
(*   - QuantumRetrogate (src/src/math/quantum_retrogate.rs)                *)
(***************************************************************************)
EXTENDS Integers, Sequences, FiniteSets, TLC

VARIABLES
    computer,   \* the TallyComputer: current_hash, previous_hash, operation_count
    commits,    \* the caller's record of its compute_tally calls with non-empty arguments
    last,       \* the caller's record of its most recent compute_tally call
    verified,   \* outcome of the caller's most recent verify_tally call
    orchestrator,  \* the Orchestrator's state: reality_layers, quantum_tallies
    caller,     \* the caller's record of its calls on the Orchestrator
    replay,     \* two Orchestrators given the same calls in two orders
    twin,       \* two TallyComputers given the same compute_tally calls
    layer,      \* one TallyLayer and its caller's record of the calls on it
    race,       \* two callers sharing one TallyComputer, each inside one compute_tally call
    arith,      \* the caller's record of its most recent PreciseFloat operation
    recorder,   \* the TallyRecorder: reality_layers, observation_count, tally_computer
    observation \* the caller's record of its calls on the TallyRecorder

vars == <<computer, commits, last, verified, orchestrator, caller, replay, twin, layer, race,
          arith, recorder, observation>>

----------------------------------------------------------------------------
(* Bounds *)

\* Digest length in bytes. The program's digests are 32 bytes (blake3, [u8; 32]);
\* the model keeps every per-byte loop of the code and shortens the arrays.
HashLen == 2

\* compute_tally calls with non-empty arguments made on one TallyComputer.
MaxCommits == 3

\* Length in bytes of an observed state and of a layer's quantum_state. The
\* program's are 64 bytes ([u8; 64], vec![0; 64]).
StateLen == 4

\* compute_state_transition calls made on one TallyLayer.
MaxTransitions == 3

----------------------------------------------------------------------------
(* Bytes and digests *)

Byte == 0..255

RECURSIVE XorBits(_, _, _)
XorBits(a, b, n) ==
    IF n = 0 THEN 0
    ELSE (((a % 2) + (b % 2)) % 2) + 2 * XorBits(a \div 2, b \div 2, n - 1)

\* u8 ^ u8
Xor(a, b) == XorBits(a, b, 8)

RECURSIVE Absorb(_, _, _)
Absorb(data, i, acc) ==
    IF i > Len(data) THEN acc
    ELSE Absorb(data, i + 1, (acc * 131 + data[i] + 1) % 65521)

\* blake3::hash(data).as_bytes(): a fixed digest of HashLen bytes that depends on
\* every byte of the input and on its length (a mixing function stands in for
\* the compression function).
Blake3(data) ==
    LET acc == Absorb(data, 1, 7 + Len(data))
    IN  [j \in 1..HashLen |-> ((acc + j) * ((acc % 251) + j) * 17 + j * j) % 256]

ZeroHash == [j \in 1..HashLen |-> 0]

----------------------------------------------------------------------------
(* TallyComputer *)

\* TallyComputer::new(precision)
TallyComputer_new(precision) ==
    [current_hash |-> ZeroHash, previous_hash |-> ZeroHash, operation_count |-> 0,
     precision |-> precision]

\* TallyComputer::new(18), as TallyRecorder::new builds it
TallyComputerNew == TallyComputer_new(18)

\* TallyResult
TallyResult(hash, operation_count) == [hash |-> hash, operation_count |-> operation_count]

\* The derivation shared by compute_tally (lines 53-91) and verify_tally (lines
\* 143-181): first says whether the state hash is used as it is, prev is
\* self.previous_hash at that point.
DeriveHash(first, prev, state, operation, proof) ==
    LET state_hash_bytes == Blake3(state)
        state_xor  == IF first THEN state_hash_bytes
                      ELSE [i \in 1..HashLen |-> Xor(state_hash_bytes[i], prev[i])]
        \* operation[i % operation.len()], i from 0
        xor_state  == [i \in 1..HashLen |->
                          Xor(state_xor[i], operation[((i - 1) % Len(operation)) + 1])]
        hash_bytes == Blake3(xor_state)
        proof_fixed == IF Len(proof) = HashLen THEN proof ELSE Blake3(proof)
    IN  [i \in 1..HashLen |-> Xor(hash_bytes[i], proof_fixed[i])]

\* A variant of compute_tally whose early return still counts the call.
compute_tally_CountsEmpty(self, state, operation, proof) ==
    IF state = <<>> \/ operation = <<>> \/ proof = <<>>
    THEN [self |-> [self EXCEPT !.operation_count = @ + 1],
          result |-> TallyResult(self.current_hash, self.operation_count + 1)]
    ELSE LET final_hash == DeriveHash(self.operation_count = 0, self.current_hash,
                                      state, operation, proof)
         IN  [self |-> [self EXCEPT !.current_hash = final_hash,
                                    !.previous_hash = self.current_hash,
                                    !.operation_count = @ + 1],
              result |-> TallyResult(final_hash, self.operation_count + 1)]

\* A variant of compute_tally that saves previous_hash after current_hash was
\* overwritten.
compute_tally_LateSave(self, state, operation, proof) ==
    IF state = <<>> \/ operation = <<>> \/ proof = <<>>
    THEN [self |-> self, result |-> TallyResult(self.current_hash, self.operation_count)]
    ELSE LET final_hash == DeriveHash(self.operation_count = 0, self.current_hash,
                                      state, operation, proof)
         IN  [self |-> [self EXCEPT !.current_hash = final_hash,
                                    !.previous_hash = final_hash,
                                    !.operation_count = @ + 1],
              result |-> TallyResult(final_hash, self.operation_count + 1)]

\* A variant of compute_tally that saves previous_hash before its early return.
compute_tally_EarlySave(self, state, operation, proof) ==
    IF state = <<>> \/ operation = <<>> \/ proof = <<>>
    THEN [self |-> [self EXCEPT !.previous_hash = self.current_hash],
          result |-> TallyResult(self.current_hash, self.operation_count)]
    ELSE LET final_hash == DeriveHash(self.operation_count = 0, self.current_hash,
                                      state, operation, proof)
         IN  [self |-> [self EXCEPT !.current_hash = final_hash,
                                    !.previous_hash = self.current_hash,
                                    !.operation_count = @ + 1],
              result |-> TallyResult(final_hash, self.operation_count + 1)]

\* A variant of compute_tally that mixes self.precision into the hash.
compute_tally_MixesPrecision(self, state, operation, proof) ==
    IF state = <<>> \/ operation = <<>> \/ proof = <<>>
    THEN [self |-> self, result |-> TallyResult(self.current_hash, self.operation_count)]
    ELSE LET derived == DeriveHash(self.operation_count = 0, self.current_hash,
                                   state, operation, proof)
             final_hash == [i \in 1..HashLen |-> Xor(derived[i], self.precision)]
         IN  [self |-> [self EXCEPT !.current_hash = final_hash,
                                    !.previous_hash = self.current_hash,
                                    !.operation_count = @ + 1],
              result |-> TallyResult(final_hash, self.operation_count + 1)]

\* A variant of verify_tally that compares nothing.
verify_tally_ComparesNothing(self, expected, state, operation, proof) ==
    DeriveHash(expected.operation_count = 1, self.previous_hash,
               state, operation, proof) \in [1..HashLen -> Byte]

\* TallyComputer::compute_tally(&mut self, state, operation, proof) -> TallyResult
compute_tally(self, state, operation, proof) ==
    IF state = <<>> \/ operation = <<>> \/ proof = <<>>
    THEN [self |-> self, result |-> TallyResult(self.current_hash, self.operation_count)]
    ELSE LET \* self.previous_hash = self.current_hash
             previous_hash == self.current_hash
             final_hash == DeriveHash(self.operation_count = 0, previous_hash,
                                      state, operation, proof)
         IN  [self |-> [self EXCEPT !.current_hash = final_hash,
                                    !.previous_hash = previous_hash,
                                    !.operation_count = @ + 1],
              result |-> TallyResult(final_hash, self.operation_count + 1)]

\* The steps of compute_tally with non-empty arguments, in the order of the
\* code: line 51, lines 54-91, line 93, line 94.
save_previous(self) == [self EXCEPT !.previous_hash = self.current_hash]

derive_final(self, state, operation, proof) ==
    DeriveHash(self.operation_count = 0, self.previous_hash, state, operation, proof)

store_current(self, final_hash) == [self EXCEPT !.current_hash = final_hash]

\* A variant of line 94 that counts a commit twice.
count_operation_Twice(self) == [self EXCEPT !.operation_count = @ + 2]

count_operation(self) == [self EXCEPT !.operation_count = @ + 1]

\* A variant of verify_tally that chains from current_hash instead of previous_hash.
verify_tally_FromCurrent(self, expected, state, operation, proof) ==
    LET computed_hash == DeriveHash(expected.operation_count = 1, self.current_hash,
                                    state, operation, proof)
    IN  /\ computed_hash = expected.hash
        /\ expected.operation_count = self.operation_count

\* A variant of verify_tally that does not compare the operation counts.
verify_tally_IgnoresCount(self, expected, state, operation, proof) ==
    LET computed_hash == DeriveHash(expected.operation_count = 1, self.previous_hash,
                                    state, operation, proof)
    IN  IF computed_hash # expected.hash THEN FALSE
        ELSE TRUE

\* TallyComputer::verify_tally(&self, expected, state, operation, proof) -> bool
\* (operation is not empty: operation[i % operation.len()] is evaluated unguarded)
verify_tally(self, expected, state, operation, proof) ==
    LET computed_hash == DeriveHash(expected.operation_count = 1, self.previous_hash,
                                    state, operation, proof)
    IN  IF computed_hash # expected.hash THEN FALSE
        ELSE IF expected.operation_count # self.operation_count THEN FALSE
        ELSE TRUE

\* TallyComputer::get_current_state
get_current_state(self) == TallyResult(self.current_hash, self.operation_count)

----------------------------------------------------------------------------
(* TallyLayer (layers/l0_tally.rs).  web2_runner takes no part in the calls    *)
(* modelled here and is left out.                                              *)

\* TallyLayer::new()
TallyLayer_new == [current_hash |-> ZeroHash, previous_hash |-> ZeroHash, operation_count |-> 0]

\* The derivation shared by compute_state_transition (lines 33-68) and
\* verify_transition (lines 83-114): first says whether the state hash is used
\* as it is, prev is self.previous_hash at that point.  The proof is always
\* hashed.
TransitionHash(first, prev, state, operation, proof) ==
    LET state_hash_bytes == Blake3(state)
        state_xor    == IF first THEN state_hash_bytes
                        ELSE [i \in 1..HashLen |-> Xor(prev[i], state_hash_bytes[i])]
        \* state_xor.iter().zip(operation.iter().cycle())
        state_op_xor == [i \in 1..HashLen |->
                            Xor(state_xor[i], operation[((i - 1) % Len(operation)) + 1])]
        hash_xor_bytes == Blake3(state_op_xor)
        proof_bytes  == Blake3(proof)
    IN  [i \in 1..HashLen |-> Xor(hash_xor_bytes[i], proof_bytes[i])]

\* Result<[u8; 32], &'static str>
TransitionOk(hash) == [ok |-> TRUE, hash |-> hash, err |-> ""]
TransitionErr(err) == [ok |-> FALSE, hash |-> <<>>, err |-> err]

\* A variant of compute_state_transition that counts the call before it looks at
\* its arguments.
compute_state_transition_CountsFirst(self, state, operation, proof) ==
    IF state = <<>> \/ operation = <<>> \/ proof = <<>>
    THEN [self |-> [self EXCEPT !.operation_count = @ + 1],
          result |-> TransitionErr("Empty input state, operation, or proof")]
    ELSE LET final_hash == TransitionHash(self.operation_count = 0, self.current_hash,
                                          state, operation, proof)
         IN  [self |-> [self EXCEPT !.current_hash = final_hash,
                                    !.previous_hash = self.current_hash,
                                    !.operation_count = @ + 1],
              result |-> TransitionOk(final_hash)]

\* TallyLayer::compute_state_transition(&mut self, state, operation, proof)
compute_state_transition(self, state, operation, proof) ==
    IF state = <<>> \/ operation = <<>> \/ proof = <<>>
    THEN [self |-> self, result |-> TransitionErr("Empty input state, operation, or proof")]
    ELSE LET \* self.previous_hash = self.current_hash
             previous_hash == self.current_hash
             final_hash == TransitionHash(self.operation_count = 0, previous_hash,
                                          state, operation, proof)
         IN  [self |-> [self EXCEPT !.current_hash = final_hash,
                                    !.previous_hash = previous_hash,
                                    !.operation_count = @ + 1],
              result |-> TransitionOk(final_hash)]

\* A variant of verify_transition that chains from current_hash.
verify_transition_FromCurrent(self, state, operation, proof, expected_hash) ==
    IF state = <<>> \/ operation = <<>> \/ proof = <<>> THEN FALSE
    ELSE TransitionHash(self.operation_count = 0, self.current_hash,
                        state, operation, proof) = expected_hash

\* TallyLayer::verify_transition(&self, state, operation, proof, expected_hash) -> bool
verify_transition(self, state, operation, proof, expected_hash) ==
    IF state = <<>> \/ operation = <<>> \/ proof = <<>> THEN FALSE
    ELSE TransitionHash(self.operation_count = 0, self.previous_hash,
                        state, operation, proof) = expected_hash

\* TallyLayer::get_operation_count
get_operation_count(self) == self.operation_count

----------------------------------------------------------------------------
(* i128 and u8 arithmetic.  The model computes with integers and applies the   *)
(* width where the code does.  The tests against 2^127 and 10^12 are written    *)
(* through quotients, 30 bits or 6 digits at a time, so that they can be        *)
(* evaluated for small operands with 32-bit machine integers.                   *)

Min(x, y) == IF x < y THEN x ELSE y
Max(x, y) == IF x > y THEN x ELSE y

Magnitude(a) == IF a < 0 THEN -a ELSE a

\* a / b in Rust: the quotient rounded toward zero, b # 0
Quot(a, b) ==
    IF (a < 0) = (b < 0) THEN Magnitude(a) \div Magnitude(b)
    ELSE -(Magnitude(a) \div Magnitude(b))

\* n < 2^127, for n >= 0
BelowTwoTo127(n) == ((((n \div 2^30) \div 2^30) \div 2^30) \div 2^30) < 2^7

\* i128::MIN <= a <= i128::MAX
InI128(a) == IF a >= 0 THEN BelowTwoTo127(a) ELSE BelowTwoTo127(-(a + 1))

\* a = i128::MIN
IsI128Min(a) == InI128(a) /\ ~InI128(a - 1)

\* two's-complement wrap of an integer into i128
Wrap(a) == IF InI128(a) THEN a ELSE ((a + 2^127) % 2^128) - 2^127

\* clamp of an integer into i128
Saturate(a) == IF InI128(a) THEN a ELSE IF a > 0 THEN 2^127 - 1 ELSE -(2^127)

wrapping_add(a, b) == Wrap(a + b)
wrapping_mul(a, b) == Wrap(a * b)
wrapping_div(a, b) == Wrap(Quot(a, b))

\* i128::abs: i128::MIN has no absolute value; without overflow checks it stays MIN
abs(v) == IF IsI128Min(v) THEN v ELSE Magnitude(v)

\* n > 1_000_000_000_000
AboveTenTo12(n) == (n - 1) \div 10^6 >= 10^6

\* (n as f64).log2() as i128 for n >= 1: the largest k with 2^k <= n.  (The
\* conversion to f64 rounds; for n within 2^-47 of the next power of two the
\* code's result is k + 1.)
RECURSIVE log2(_)
log2(n) == IF n < 2 THEN 0 ELSE 1 + log2(n \div 2)

----------------------------------------------------------------------------
(* PreciseFloat: value * 10^-scale, value an i128 and scale a u8.             *)
(*                                                                            *)
(* Every operation yields a record [value, scale, fault, ovf].  fault says    *)
(* how the evaluation ends in a build without overflow checks (release):      *)
(*   0  it returns value and scale;                                           *)
(*   2  it panics (expect, panic!, division overflow);                        *)
(*   3  it does not return (a loop that cannot leave);                        *)
(*   4  it recurses without end (ln is entered again with the argument of a   *)
(*      pending ln call) until the stack overflows.                           *)
(* ovf says that an unchecked i128 operation overflowed on the way: a build   *)
(* with overflow checks (debug) panics at that point, whatever fault is.  An  *)
(* operation on a record with fault # 0 yields that record.                   *)

PF(value, scale) == [value |-> value, scale |-> scale, fault |-> 0, ovf |-> FALSE]
Fault(level)     == [value |-> 0, scale |-> 0, fault |-> level, ovf |-> FALSE]
Failed(a)        == a.fault # 0
With(a, ovf)     == [a EXCEPT !.ovf = @ \/ ovf]

\* PreciseFloat::new
new(value, scale) ==
    LET effective_scale == Min(Max(scale, 1), 18)
        scaled_value == IF AboveTenTo12(abs(value))
                        THEN wrapping_div(value, 10^6)
                        ELSE value
    IN  With(PF(scaled_value, effective_scale), IsI128Min(value))

\* PreciseFloat::add(&self, &Self): checked_pow, checked_mul, checked_add, each
\* with expect
add(self, other) ==
    IF Failed(self) THEN self ELSE IF Failed(other) THEN With(other, self.ovf)
    ELSE LET scale == Max(self.scale, other.scale)
             p1  == 10^(scale - self.scale)
             v1  == self.value * p1
             p2  == 10^(scale - other.scale)
             v2  == other.value * p2
         IN  IF ~InI128(p1) \/ ~InI128(v1) \/ ~InI128(p2) \/ ~InI128(v2)
                \/ ~InI128(v1 + v2)
             THEN With(Fault(2), self.ovf \/ other.ovf)
             ELSE With(new(v1 + v2, scale), self.ovf \/ other.ovf)

\* PreciseFloat::sub(&self, &Self): unchecked pow, * and -
sub(self, other) ==
    IF Failed(self) THEN self ELSE IF Failed(other) THEN With(other, self.ovf)
    ELSE LET scale == Max(self.scale, other.scale)
             p1 == 10^(scale - self.scale)
             m1 == self.value * Wrap(p1)
             p2 == 10^(scale - other.scale)
             m2 == other.value * Wrap(p2)
             d  == Wrap(m1) - Wrap(m2)
             overflowed == ~InI128(p1) \/ ~InI128(m1) \/ ~InI128(p2) \/ ~InI128(m2)
                           \/ ~InI128(d)
         IN  With(new(Wrap(d), scale), overflowed \/ self.ovf \/ other.ovf)

\* exp's second normalisation loop, while result.value < 950: a value in 1..949
\* is multiplied by 10 until it leaves; a value <= 0 stays <= 0 under * 10 and
\* under new, so the loop cannot leave.
RECURSIVE exp_scale_up(_)
exp_scale_up(result) ==
    IF result.value >= 950 THEN result
    ELSE IF result.value <= 0 THEN With(Fault(3), result.ovf)
    ELSE exp_scale_up(With(new(wrapping_mul(result.value, 10), Min(result.scale + 1, 255)),
                           result.ovf))

\* exp's first normalisation loop, while result.value > 1050
RECURSIVE exp_scale_down(_)
exp_scale_down(result) ==
    IF result.value <= 1050 THEN result
    ELSE exp_scale_down(With(new(wrapping_div(result.value, 10), Max(result.scale - 1, 0)),
                             result.ovf))

\* exp's series, for i in 1..=5
RECURSIVE exp_terms(_, _, _, _)
exp_terms(i, term, result, x) ==
    IF i > 5 THEN result
    ELSE LET term1 == new(wrapping_div(wrapping_mul(term.value, x.value), i * 1000), 3)
             result1 == new(wrapping_add(result.value, term1.value), 3)
         IN  exp_terms(i + 1, term1, With(result1, result.ovf \/ term1.ovf), x)

\* PreciseFloat::exp
exp(self) ==
    IF Failed(self) THEN self
    ELSE IF abs(self.value) > 10000
    THEN With(new(IF self.value >= 0 THEN 1000 ELSE 1, 3), self.ovf)
    ELSE LET start  == new(1000, 3)
             x      == new(self.value, self.scale)
             summed == exp_terms(1, start, With(start, self.ovf \/ x.ovf), x)
         IN  exp_scale_up(exp_scale_down(summed))

\* impl Add<&PreciseFloat> for PreciseFloat: what x.add(&y) calls for a
\* PreciseFloat x held by value (a method taking self by value is found before
\* the inherent add, which takes &self)
Add_ref_add(self, other) ==
    IF Failed(self) THEN self ELSE IF Failed(other) THEN With(other, self.ovf)
    ELSE With(PF(Saturate(self.value + other.value), self.scale), self.ovf \/ other.ovf)

\* impl Div<&PreciseFloat> for PreciseFloat: what x.div(&y) calls for a
\* PreciseFloat x held by value.  panic!("Division by zero");
\* self.value * 1_000_000 is unchecked; i128::MIN / -1 panics in every build.
Div_ref_div(self, other) ==
    IF Failed(self) THEN self ELSE IF Failed(other) THEN With(other, self.ovf)
    ELSE IF other.value = 0 THEN With(Fault(2), self.ovf \/ other.ovf)
    ELSE LET scale   == Max(self.scale, other.scale)
             product == self.value * 10^6
             flags   == ~InI128(product) \/ self.ovf \/ other.ovf
         IN  IF IsI128Min(Wrap(product)) /\ other.value = -1 THEN With(Fault(2), flags)
             ELSE With(new(Quot(Wrap(product), other.value), scale), flags)

\* ln and the * of a value by a reference call one another; pending holds the
\* arguments of the ln calls that are on the stack.
RECURSIVE ln_in(_, _), Mul_ref_mul_in(_, _, _), ln_terms(_, _, _, _, _)

\* impl Mul<&PreciseFloat> for PreciseFloat: what x.mul(&y) calls for a
\* PreciseFloat x held by value
Mul_ref_mul_in(self, other, pending) ==
    IF Failed(self) THEN self ELSE IF Failed(other) THEN With(other, self.ovf)
    ELSE LET self_large == abs(self.value) > 10^9
             odd == IsI128Min(self.value) \/ (~self_large /\ IsI128Min(other.value))
                    \/ self.ovf \/ other.ovf
         IN  IF self_large \/ abs(other.value) > 10^9
             THEN With(exp(Add_ref_add(ln_in(self, pending), ln_in(other, pending))), odd)
             ELSE With(PF(Saturate(self.value * other.value),
                          Min(self.scale + other.scale, 255)), odd)

\* ln's series, the body of for k in 1..10 once term has been multiplied
ln_step(k, term, result, z_squared, pending) ==
    ln_terms(k + 1, term, Add_ref_add(result, Div_ref_div(term, new(2 * k + 1, 0))),
             z_squared, pending)

\* ln's series, for k in 1..10
ln_terms(k, term, result, z_squared, pending) ==
    IF k >= 10 \/ Failed(result) THEN result
    ELSE ln_step(k, Mul_ref_mul_in(term, z_squared, pending), result, z_squared, pending)

\* ln from z_squared on
ln_sum(z, z_squared, pending) ==
    Mul_ref_mul_in(ln_terms(1, z, z, z_squared, pending), new(2, 0), pending)

\* ln from x_minus_1 and x_plus_1 on
ln_series(self, x_minus_1, x_plus_1, pending) ==
    IF Failed(x_plus_1) THEN With(x_plus_1, x_minus_1.ovf)
    ELSE IF abs(x_plus_1.value) < 100
    THEN With(new(IF self.value > 1000 THEN 1000 ELSE -1000, self.scale),
              x_minus_1.ovf \/ x_plus_1.ovf)
    ELSE ln_sum(Div_ref_div(x_minus_1, x_plus_1),
                Mul_ref_mul_in(Div_ref_div(x_minus_1, x_plus_1),
                               Div_ref_div(x_minus_1, x_plus_1), pending),
                pending)

\* PreciseFloat::ln; one is PreciseFloat::new(1000, 3), and normalized has the
\* value of self, which is at most 10^9 where it is built.  (The branch at
\* lines 319-327 repeats the condition of line 305 and is never entered.)
ln_in(self, pending) ==
    IF Failed(self) THEN self
    ELSE IF self.value <= 0 THEN With(new(-(10^9), 3), self.ovf)
    ELSE IF abs(self.value) > 10^9
    THEN With(new(Saturate(log2(abs(self.value)) * 693147), 6), self.ovf)
    ELSE IF abs(self.value - 1000) < 100
    THEN With(new(Quot((self.value - 1000) * 1000, 1000), 3), self.ovf)
    ELSE IF <<self.value, self.scale>> \in pending THEN With(Fault(4), self.ovf)
    ELSE ln_series(self, sub(self, PF(1000, 3)), add(self, PF(1000, 3)),
                   pending \cup {<<self.value, self.scale>>})

\* ln as called from outside ln
ln(self) == ln_in(self, {})

\* impl Add for PreciseFloat (the + operator): wrapping_pow, wrapping_mul,
\* wrapping_add, a struct literal (no clamping of the scale)
Add_add(self, other) ==
    IF Failed(self) THEN self ELSE IF Failed(other) THEN With(other, self.ovf)
    ELSE LET max_scale   == Max(self.scale, other.scale)
             self_value  == IF self.scale < max_scale
                            THEN wrapping_mul(self.value, Wrap(10^(max_scale - self.scale)))
                            ELSE self.value
             other_value == IF other.scale < max_scale
                            THEN wrapping_mul(other.value, Wrap(10^(max_scale - other.scale)))
                            ELSE other.value
         IN  With(PF(wrapping_add(self_value, other_value), max_scale),
                  self.ovf \/ other.ovf)

\* the scaling loop of the * operator, while value.abs() > 10^12
RECURSIVE Mul_scale_down(_, _)
Mul_scale_down(value, scale) ==
    IF ~AboveTenTo12(abs(value)) THEN [value |-> value, scale |-> scale]
    ELSE Mul_scale_down(wrapping_div(value, 1000), Max(scale - 3, 0))

\* impl Mul for PreciseFloat (the * operator)
Mul_mul(self, other) ==
    IF Failed(self) THEN self ELSE IF Failed(other) THEN With(other, self.ovf)
    ELSE LET self_large == abs(self.value) > 10^6
             odd == IsI128Min(self.value) \/ (~self_large /\ IsI128Min(other.value))
                    \/ self.ovf \/ other.ovf
         IN  IF self_large \/ abs(other.value) > 10^6
             THEN With(exp(Add_ref_add(ln(self), ln(other))), odd)
             ELSE LET scaled == Mul_scale_down(wrapping_mul(self.value, other.value),
                                               Min(self.scale + other.scale, 255))
                  IN  With(new(scaled.value, scaled.scale), odd)

\* impl Div for PreciseFloat (the / operator): panic!("Division by zero");
\* self.value * 1_000_000 is unchecked; i128::MIN / -1 panics in every build
Div_div(self, other) ==
    IF Failed(self) THEN self ELSE IF Failed(other) THEN With(other, self.ovf)
    ELSE IF other.value = 0 THEN With(Fault(2), self.ovf \/ other.ovf)
    ELSE LET scale   == Max(self.scale, other.scale)
             product == self.value * 10^6
             flags   == ~InI128(product) \/ self.ovf \/ other.ovf
         IN  IF IsI128Min(Wrap(product)) /\ other.value = -1 THEN With(Fault(2), flags)
             ELSE With(new(Quot(Wrap(product), other.value), scale), flags)

\* impl Ord for PreciseFloat: the raw values are compared, whatever the scales
cmp(self, other) ==
    IF self.value < other.value THEN -1 ELSE IF self.value > other.value THEN 1 ELSE 0

wrapping_sub(a, b) == Wrap(a - b)

\* the first range-reduction loop of cos and of sin, while normalized.value >
\* pi.value; pi is PreciseFloat::new(3142, 3)
RECURSIVE angle_down(_)
angle_down(normalized) ==
    IF normalized.value <= 3142 THEN normalized
    ELSE angle_down(With(new(wrapping_sub(normalized.value, 2 * 3142), 3), normalized.ovf))

\* the second range-reduction loop, while normalized.value < -pi.value
RECURSIVE angle_up(_)
angle_up(normalized) ==
    IF normalized.value >= -3142 THEN normalized
    ELSE angle_up(With(new(wrapping_add(normalized.value, 2 * 3142), 3), normalized.ovf))

\* the result of cos and of sin cut to [-1000, 1000]
unit(result, ovf) ==
    IF result.value > 1000 THEN With(new(1000, 3), ovf)
    ELSE IF result.value < -1000 THEN With(new(-1000, 3), ovf)
    ELSE With(result, ovf)

\* cos from the normalized angle on; pi.value / 2 is 1571
cos_of(normalized) ==
    IF abs(normalized.value) < 100 THEN With(new(1000, 3), normalized.ovf)
    ELSE IF abs(normalized.value - 1571) < 100 \/ abs(normalized.value + 1571) < 100
    THEN With(new(0, 3), normalized.ovf)
    ELSE IF abs(normalized.value - 3142) < 100 \/ abs(normalized.value + 3142) < 100
    THEN With(new(-1000, 3), normalized.ovf)
    ELSE unit(new(wrapping_sub(1000,
                      wrapping_div(new(wrapping_div(wrapping_mul(normalized.value,
                                                                 normalized.value), 1000),
                                       3).value, 2)), 3),
              normalized.ovf)

\* PreciseFloat::cos
cos(self) ==
    IF Failed(self) THEN self
    ELSE cos_of(angle_up(angle_down(With(new(self.value, 3), self.ovf))))

\* sin from the normalized angle on
sin_of(normalized) ==
    IF abs(normalized.value) < 100 THEN With(new(0, 3), normalized.ovf)
    ELSE IF abs(normalized.value - 1571) < 100 THEN With(new(1000, 3), normalized.ovf)
    ELSE IF abs(normalized.value + 1571) < 100 THEN With(new(-1000, 3), normalized.ovf)
    ELSE IF abs(normalized.value - 3142) < 100 \/ abs(normalized.value + 3142) < 100
    THEN With(new(0, 3), normalized.ovf)
    ELSE unit(new(wrapping_sub(normalized.value,
                      wrapping_div(wrapping_mul(
                          new(wrapping_div(wrapping_mul(normalized.value, normalized.value),
                                           1000), 3).value,
                          normalized.value), 6000)), 3),
              normalized.ovf)

\* PreciseFloat::sin
sin(self) ==
    IF Failed(self) THEN self
    ELSE sin_of(angle_up(angle_down(With(new(self.value, 3), self.ovf))))

\* An f64 that is NaN, an infinity, or a whole number of halves, halves / 2.
F64(class, halves) == [class |-> class, halves |-> halves]

\* PreciseFloat::from_f64.  For a whole number of halves val * 10^scale is exact
\* in f64 at the scales of the model, and the cast to i128 cuts the fraction.
from_f64(val, scale) ==
    IF val.class \in {"nan", "infinite"} THEN new(0, scale)
    ELSE IF val.halves = 0 THEN new(0, scale)
    ELSE PF(Quot(val.halves * 10^scale, 2), scale)

\* Ord::min: other where other < self, else self
min(self, other) ==
    IF Failed(self) THEN self ELSE IF Failed(other) THEN With(other, self.ovf)
    ELSE IF cmp(other, self) < 0 THEN With(other, self.ovf) ELSE With(self, other.ovf)

\* PreciseFloat::is_zero
is_zero(self) == self.value = 0

\* impl Sub<&PreciseFloat> for PreciseFloat: what x.sub(&y) calls for a
\* PreciseFloat x held by value
Sub_ref_sub(self, other) ==
    IF Failed(self) THEN self ELSE IF Failed(other) THEN With(other, self.ovf)
    ELSE With(PF(Saturate(self.value - other.value), self.scale), self.ovf \/ other.ovf)

\* PreciseFloat::mul(&self, &Self): what x.mul(&y) calls where the operator
\* traits are not in scope (orchestration/tally, math/quantum_retrogate).
\* Inside, ln() yields a value and its add(&..) is the trait's, as in ln.
mul(self, other) ==
    IF Failed(self) THEN self ELSE IF Failed(other) THEN With(other, self.ovf)
    ELSE LET self_large == abs(self.value) > 10^9
             odd == IsI128Min(self.value) \/ (~self_large /\ IsI128Min(other.value))
                    \/ self.ovf \/ other.ovf
         IN  IF self_large \/ abs(other.value) > 10^9
             THEN With(exp(Add_ref_add(ln(self), ln(other))), odd)
             ELSE With(new(Saturate(self.value * other.value),
                           Min(self.scale + other.scale, 255)), odd)

\* div's quotient of the scaled values: checked_pow falls back on 1, checked_mul
\* on MAX or MIN by the sign of scaled_self; checked_div is None for a divisor
\* of 0 and for MIN / -1, and falls back on MAX or MIN by the signs
div_scaled(scaled_self, scaled_other, reduced_scale) ==
    LET power        == IF InI128(10^reduced_scale) THEN 10^reduced_scale ELSE 1
        scaled_value == Saturate(scaled_self * power)
    IN  IF scaled_other = 0 \/ (IsI128Min(scaled_value) /\ scaled_other = -1)
        THEN (IF (scaled_value >= 0) = (scaled_other >= 0) THEN 2^127 - 1 ELSE -(2^127))
        ELSE Quot(scaled_value, scaled_other)

\* PreciseFloat::div(&self, &Self).  126 - self.scale is an unchecked u8
\* subtraction; saturating_pow yields i128::MAX from 10^39 on.
div(self, other) ==
    IF Failed(self) THEN self ELSE IF Failed(other) THEN With(other, self.ovf)
    ELSE LET small == other.value = 0 \/ abs(other.value) < 10
             odd   == IsI128Min(other.value) \/ (~small /\ IsI128Min(self.value))
                      \/ self.ovf \/ other.ovf
         IN  IF small
             THEN LET max_safe == Saturate(10^((126 - self.scale) % 256))
                  IN  With(new(IF self.value >= 0 THEN max_safe ELSE -max_safe, self.scale),
                           odd \/ self.scale > 126)
             ELSE IF abs(self.value) > 10^9 \/ abs(other.value) > 10^9
             THEN With(exp(Sub_ref_sub(ln(self), ln(other))), odd)
             ELSE LET reduced_scale == Max(self.scale - 2, 0)
                      scale_diff    == self.scale - reduced_scale
                      scaled_self   == IF scale_diff > 0
                                       THEN Quot(self.value, 10^scale_diff)
                                       ELSE self.value
                      scaled_other  == IF scale_diff > 0
                                       THEN Quot(other.value, 10^scale_diff)
                                       ELSE other.value
                  IN  With(new(div_scaled(scaled_self, scaled_other, reduced_scale),
                               reduced_scale), odd)

\* the n low bytes of the two's complement of v, lowest first
RECURSIVE LowBytes(_, _)
LowBytes(v, n) ==
    IF n = 0 THEN <<>> ELSE <<v % 256>> \o LowBytes(v \div 256, n - 1)

\* i128::to_le_bytes
to_le_bytes(v) == LowBytes(v, 16)

----------------------------------------------------------------------------
(* Orchestrator *)

\* Calls made on one Orchestrator.
MaxCalls == 4

\* Sha256::new().update(data).finalize(): a fixed digest of HashLen bytes that
\* depends on every byte of the input (a mixing function stands in for the
\* compression function; it tells the states of ObservedStates apart).
Sha256(data) ==
    LET acc == Absorb(data, 1, 19 + Len(data))
    IN  [j \in 1..HashLen |-> ((acc + 3 * j) * ((acc % 241) + j) * 29 + j) % 256]

\* Orchestrator::calculate_state_hash
calculate_state_hash(state) == Sha256(state)

\* Option<T>
None    == <<>>
Some(x) == <<x>>

\* TallyRecorder::new (orchestration/tally/mod.rs)
TallyRecorder_new(coherence_threshold) ==
    [reality_layers |-> <<>>, coherence_threshold |-> coherence_threshold,
     observation_count |-> 0, tally_computer |-> TallyComputer_new(18),
     latest_result |-> None]

\* Orchestrator::new(coherence_threshold)
Orchestrator_new(coherence_threshold) ==
    [reality_layers |-> <<>>, quantum_tallies |-> <<>>,
     tally_recorder |-> TallyRecorder_new(coherence_threshold)]

\* Orchestrator::new: the OrchestratorState and the TallyRecorder.  HashMaps are
\* functions on the keys they hold.  entanglement_map, coherence_matrix and
\* active_observers are not written by the handlers modelled here and are left
\* out, and so is coherence_threshold, which they do not read.
OrchestratorNew == Orchestrator_new(new(800, 3))

\* the RealityLayer that register_observation inserts
RealityLayerNew(layer_id) ==
    [layer_id |-> layer_id, quantum_state |-> [j \in 1..StateLen |-> 0], observer_count |-> 0,
     coherence_score |-> new(0, 20), entanglement_count |-> 0, last_sync |-> 0]

\* the QuantumTally that register_observation inserts.  observer_votes is the set
\* of the QuantumVotes held; an insert removes the vote filed under the same key.
QuantumTallyNew(state_hash) ==
    [state_hash |-> state_hash, observer_votes |-> {}, consensus_reached |-> FALSE,
     final_state |-> None, confidence_score |-> new(0, 20)]

\* HashMap::entry(key).or_insert(value)
or_insert(map, key, value) == IF key \in DOMAIN map THEN map ELSE (key :> value) @@ map

\* The orders in which a HashMap can hand out its values: every enumeration.
Orders(values) ==
    { order \in [1..Cardinality(values) -> values] :
          \A v \in values : \E i \in DOMAIN order : order[i] = v }

\* try_reach_consensus, the loop over observer_votes.values(): the total is
\* added to, the entry of vote_weights is assigned.
RECURSIVE SumVotes(_, _, _, _)
SumVotes(order, i, total_confidence, vote_weights) ==
    IF i > Len(order)
    THEN [total_confidence |-> total_confidence, vote_weights |-> vote_weights]
    ELSE LET weight == order[i].confidence
         IN  SumVotes(order, i + 1, Add_add(total_confidence, weight),
                      (order[i].observed_state :> weight) @@ vote_weights)

\* how a call ends when a PreciseFloat operation does not return a value
Abort(a) == IF a.fault = 2 THEN "panic" ELSE "no return"

\* try_reach_consensus, lines 186-189: the tally is flagged and given its final
\* state, then the score is computed and stored
reached(self, state_hash, winning_state, score) ==
    IF Failed(score)
    THEN [self   |-> [self EXCEPT !.quantum_tallies[state_hash].consensus_reached = TRUE,
                                  !.quantum_tallies[state_hash].final_state =
                                      Some(winning_state)],
          result |-> Abort(score)]
    ELSE [self   |-> [self EXCEPT !.quantum_tallies[state_hash].consensus_reached = TRUE,
                                  !.quantum_tallies[state_hash].final_state =
                                      Some(winning_state),
                                  !.quantum_tallies[state_hash].confidence_score = score],
          result |-> "Ok(true)"]

\* try_reach_consensus, lines 184-190, with the threshold computed
compare(self, state_hash, total_confidence, winning_state, weight, consensus_threshold) ==
    IF Failed(consensus_threshold)
    THEN [self |-> self, result |-> Abort(consensus_threshold)]
    ELSE IF cmp(weight, consensus_threshold) < 0
    THEN [self |-> self, result |-> "Ok(false)"]
    ELSE reached(self, state_hash, winning_state, Div_div(weight, total_confidence))

\* try_reach_consensus, lines 180-190, with the winning entry of vote_weights
threshold(self, state_hash, total_confidence, winning_state, weight) ==
    compare(self, state_hash, total_confidence, winning_state, weight,
            Mul_mul(total_confidence, new(75, 2)))

\* try_reach_consensus, lines 180-193, with the total and the weights.  max_by
\* yields an entry of largest weight (of several equal ones, the one iterated
\* last; the votes of a tally all carry the state the tally is filed under, so
\* vote_weights has one entry).
max_by(self, state_hash, total_confidence, vote_weights) ==
    IF DOMAIN vote_weights = {} THEN [self |-> self, result |-> "Ok(false)"]
    ELSE threshold(self, state_hash, total_confidence,
                   CHOOSE s \in DOMAIN vote_weights :
                       \A t \in DOMAIN vote_weights :
                           cmp(vote_weights[t], vote_weights[s]) <= 0,
                   vote_weights[CHOOSE s \in DOMAIN vote_weights :
                                    \A t \in DOMAIN vote_weights :
                                        cmp(vote_weights[t], vote_weights[s]) <= 0])

\* try_reach_consensus with the loop done
weigh(self, state_hash, summed) ==
    max_by(self, state_hash, summed.total_confidence, summed.vote_weights)

\* try_reach_consensus from the declaration of vote_weights on; order is the
\* order in which observer_votes.values() hands out the votes
decide(self, state_hash, order) ==
    weigh(self, state_hash, SumVotes(order, 1, new(0, 20), <<>>))

\* try_reach_consensus that evaluates a tally whether or not it is decided
try_reach_consensus_Reevaluates(self, state_hash, order) ==
    IF state_hash \notin DOMAIN self.quantum_tallies
    THEN [self |-> self, result |-> "Err(Tally not found)"]
    ELSE IF Cardinality(self.quantum_tallies[state_hash].observer_votes) < 3
    THEN [self |-> self, result |-> "Ok(false)"]
    ELSE decide(self, state_hash, order)

\* try_reach_consensus that is content with two observers
try_reach_consensus_TwoSuffice(self, state_hash, order) ==
    IF state_hash \notin DOMAIN self.quantum_tallies
    THEN [self |-> self, result |-> "Err(Tally not found)"]
    ELSE IF self.quantum_tallies[state_hash].consensus_reached
    THEN [self |-> self, result |-> "Ok(true)"]
    ELSE IF Cardinality(self.quantum_tallies[state_hash].observer_votes) < 2
    THEN [self |-> self, result |-> "Ok(false)"]
    ELSE decide(self, state_hash, order)

\* A variant of try_reach_consensus that opens a tally for an unknown state hash.
try_reach_consensus_OpensTally(self, state_hash, order) ==
    IF state_hash \notin DOMAIN self.quantum_tallies
    THEN [self |-> [self EXCEPT !.quantum_tallies =
                       or_insert(@, state_hash, QuantumTallyNew(state_hash))],
          result |-> "Ok(false)"]
    ELSE IF self.quantum_tallies[state_hash].consensus_reached
    THEN [self |-> self, result |-> "Ok(true)"]
    ELSE IF Cardinality(self.quantum_tallies[state_hash].observer_votes) < 3
    THEN [self |-> self, result |-> "Ok(false)"]
    ELSE decide(self, state_hash, order)

\* Orchestrator::try_reach_consensus
try_reach_consensus(self, state_hash, order) ==
    IF state_hash \notin DOMAIN self.quantum_tallies
    THEN [self |-> self, result |-> "Err(Tally not found)"]
    ELSE IF self.quantum_tallies[state_hash].consensus_reached
    THEN [self |-> self, result |-> "Ok(true)"]
    ELSE IF Cardinality(self.quantum_tallies[state_hash].observer_votes) < 3
    THEN [self |-> self, result |-> "Ok(false)"]
    ELSE decide(self, state_hash, order)

\* register_observation that adds the vote and leaves the observer's earlier one
record_vote_KeepsEarlier(self, layer_id, observer_id, state, confidence, now) ==
    LET state_hash == calculate_state_hash(state)
        layers   == or_insert(self.reality_layers, layer_id, RealityLayerNew(layer_id))
        tallies  == or_insert(self.quantum_tallies, state_hash, QuantumTallyNew(state_hash))
        vote     == [observer_id |-> observer_id, observed_state |-> state,
                     observation_time |-> now, confidence |-> confidence]
    IN  [reality_layers  |-> layers,
         quantum_tallies |-> [tallies EXCEPT ![state_hash].observer_votes = @ \cup {vote}],
         tally_recorder  |-> self.tally_recorder]

\* A variant of register_observation that files the vote in the tally of the
\* observer's id.
record_vote_FilesByObserver(self, layer_id, observer_id, state, confidence, now) ==
    LET layers   == or_insert(self.reality_layers, layer_id, RealityLayerNew(layer_id))
        tallies  == or_insert(or_insert(self.quantum_tallies, calculate_state_hash(state),
                                        QuantumTallyNew(calculate_state_hash(state))),
                              observer_id, QuantumTallyNew(observer_id))
        vote     == [observer_id |-> observer_id, observed_state |-> state,
                     observation_time |-> now, confidence |-> confidence]
    IN  [reality_layers  |-> layers,
         quantum_tallies |-> [tallies EXCEPT ![observer_id].observer_votes =
                                 {v \in @ : v.observer_id # observer_id} \cup {vote}],
         tally_recorder  |-> self.tally_recorder]

\* A variant of register_observation that counts the vote as an observation of
\* the TallyRecorder.
record_vote_CountsObservation(self, layer_id, observer_id, state, confidence, now) ==
    LET state_hash == calculate_state_hash(state)
        layers   == or_insert(self.reality_layers, layer_id, RealityLayerNew(layer_id))
        tallies  == or_insert(self.quantum_tallies, state_hash, QuantumTallyNew(state_hash))
        vote     == [observer_id |-> observer_id, observed_state |-> state,
                     observation_time |-> now, confidence |-> confidence]
    IN  [reality_layers  |-> layers,
         quantum_tallies |-> [tallies EXCEPT ![state_hash].observer_votes =
                                 {v \in @ : v.observer_id # observer_id} \cup {vote}],
         tally_recorder  |-> [self.tally_recorder EXCEPT !.observation_count = @ + 1]]

\* register_observation up to the insert of the vote: the layer and the tally
\* are created if absent, the vote replaces the one filed under observer_id
record_vote(self, layer_id, observer_id, state, confidence, now) ==
    LET state_hash == calculate_state_hash(state)
        layers   == or_insert(self.reality_layers, layer_id, RealityLayerNew(layer_id))
        tallies  == or_insert(self.quantum_tallies, state_hash, QuantumTallyNew(state_hash))
        vote     == [observer_id |-> observer_id, observed_state |-> state,
                     observation_time |-> now, confidence |-> confidence]
    IN  [reality_layers  |-> layers,
         quantum_tallies |-> [tallies EXCEPT ![state_hash].observer_votes =
                                 {v \in @ : v.observer_id # observer_id} \cup {vote}],
         tally_recorder  |-> self.tally_recorder]

\* register_observation, lines 151-152: try_reach_consensus(state_hash)?; Ok(())
propagate(tried) ==
    [self   |-> tried.self,
     result |-> IF tried.result \in {"Ok(true)", "Ok(false)"} THEN "Ok(())"
                ELSE tried.result]

\* Orchestrator::register_observation
register_observation(self, layer_id, observer_id, state, confidence, now, order) ==
    propagate(try_reach_consensus(record_vote(self, layer_id, observer_id, state,
                                              confidence, now),
                                  calculate_state_hash(state), order))

\* Orchestrator::get_consensus_state
get_consensus_state(self, state_hash) ==
    IF state_hash \in DOMAIN self.quantum_tallies
    THEN Some(self.quantum_tallies[state_hash]) ELSE None

----------------------------------------------------------------------------
(* QuantumStateVector (orchestration/tally/mod.rs).  The operator traits are  *)
(* not in scope there, so a.mul(&b), a.div(&b) and a.sub(&b) are the inherent  *)
(* methods and +, * and / the impls for two values.                           *)

\* calculate_coherence, the loop over the amplitudes
RECURSIVE sum_squares(_, _, _)
sum_squares(amplitudes, i, sum) ==
    IF i > Len(amplitudes) THEN sum
    ELSE sum_squares(amplitudes, i + 1, Add_add(sum, mul(amplitudes[i], amplitudes[i])))

\* calculate_coherence from the sum on
coherence_of(sum) ==
    IF Failed(sum) THEN sum
    ELSE IF is_zero(sum) THEN With(new(0, 3), sum.ovf)
    ELSE div(new(1000, 3), exp(sum))

\* QuantumStateVector::calculate_coherence
calculate_coherence(amplitudes) == coherence_of(sum_squares(amplitudes, 1, new(0, 6)))

\* QuantumStateVector::new
QuantumStateVector_new(amplitudes, phases) ==
    [amplitudes |-> amplitudes, phases |-> phases,
     coherence |-> calculate_coherence(amplitudes)]

\* calculate_overlap, the body of the loop: cos_phase is computed first
overlap_term(a1, p1, a2, p2, cos_phase) ==
    IF Failed(cos_phase) THEN cos_phase ELSE mul(mul(a1, a2), cos_phase)

\* calculate_overlap, the loop over the zipped vectors
RECURSIVE overlap_sum(_, _, _, _, _)
overlap_sum(self, other, i, n, overlap) ==
    IF i > n \/ Failed(overlap) THEN overlap
    ELSE overlap_sum(self, other, i + 1, n,
                     Add_add(overlap,
                             overlap_term(self.amplitudes[i], self.phases[i],
                                          other.amplitudes[i], other.phases[i],
                                          cos(sub(self.phases[i], other.phases[i])))))

\* overlap.mul(&overlap)
squared(overlap) == mul(overlap, overlap)

\* QuantumStateVector::calculate_overlap; zip stops at the shortest vector
calculate_overlap(self, other) ==
    squared(overlap_sum(self, other, 1,
                        Min(Min(Len(self.amplitudes), Len(self.phases)),
                            Min(Len(other.amplitudes), Len(other.phases))),
                        new(0, 6)))

----------------------------------------------------------------------------
(* QuantumRetrogate (math/quantum_retrogate.rs) *)

\* QuantumRetrogate::new
QuantumRetrogate_new(n_qubits) ==
    [phases       |-> [i \in 1..(2^n_qubits) |-> new(0, 8)],
     amplitudes   |-> [i \in 1..(2^n_qubits) |-> Div_div(new(1000, 3), new(2^n_qubits, 0))],
     retro_matrix |-> [i \in 1..(2^n_qubits) |-> [j \in 1..(2^n_qubits) |-> new(0, 8)]]]

\* QuantumRetrogate::update_state
update_state(self, amplitudes, phases) ==
    IF Len(amplitudes) # Len(self.amplitudes) \/ Len(phases) # Len(self.phases) THEN self
    ELSE [self EXCEPT !.amplitudes = amplitudes, !.phases = phases]

\* factorial_phase, for i in 1..=state_val
RECURSIVE factorial_loop(_, _, _)
factorial_loop(i, state, phase) ==
    IF i > state \/ Failed(phase) THEN phase
    ELSE factorial_loop(i + 1, state, Mul_mul(phase, new(i, 0)))

\* QuantumRetrogate::factorial_phase
factorial_phase(state) ==
    mul(div(factorial_loop(1, state, new(1, 8)), new(6283, 3)), new(6283, 3))

\* calculate_retro_phase from phase_diff on
retro_coherence(phase_diff) ==
    sub(new(1000, 3), div(mul(phase_diff, new(1000, 3)), new(6283, 3)))

\* calculate_retro_phase from the difference of the phases on
retro_abs(phase_diff) ==
    retro_coherence(IF phase_diff.value < 0 THEN mul(phase_diff, new(-1, 0)) ELSE phase_diff)

\* calculate_retro_phase from phase1 and phase2 on; phase1 is computed first
retro_phase_of(phases) ==
    IF Failed(phases[1]) THEN phases[1] ELSE retro_abs(sub(phases[1], phases[2]))

\* QuantumRetrogate::calculate_retro_phase
calculate_retro_phase(state1, state2) ==
    retro_phase_of([k \in 1..2 |-> factorial_phase(IF k = 1 THEN state1 ELSE state2)])

\* calculate_retrogate, for j in 0..n: the row i of the retroactive matrix from
\* column j on.  last is the retro phase written last, or the one that failed.
RECURSIVE retro_row(_, _, _, _)
retro_set(i, j, n, row, retro_phase) ==
    IF Failed(retro_phase) THEN [last |-> retro_phase, row |-> row]
    ELSE retro_row(i, j + 1, n, [last |-> retro_phase, row |-> Append(row.row, retro_phase)])
retro_row(i, j, n, row) ==
    IF j >= n THEN row ELSE retro_set(i, j, n, row, calculate_retro_phase(i, j))

\* calculate_retrogate, the phase estimation loop from i on: total_phase and the
\* rows written so far, or the value that failed in the place of total_phase
RECURSIVE phase_estimation(_, _, _, _, _)
estimated(self, i, n, total_phase, rows, kicked_phase, row) ==
    IF Failed(kicked_phase) THEN [total_phase |-> kicked_phase, retro_matrix |-> rows]
    ELSE IF Failed(row.last) THEN [total_phase |-> row.last, retro_matrix |-> rows]
    ELSE phase_estimation(self, i + 1, n,
                          Add_add(total_phase, Mul_mul(kicked_phase, self.amplitudes[i + 1])),
                          Append(rows, row.row))
phase_estimation(self, i, n, total_phase, rows) ==
    IF i >= n \/ Failed(total_phase) THEN [total_phase |-> total_phase, retro_matrix |-> rows]
    ELSE estimated(self, i, n, total_phase, rows,
                   Mul_mul(self.phases[i + 1], factorial_phase(i)),
                   retro_row(i, 0, n, [last |-> new(0, 8), row |-> <<>>]))

\* calculate_retrogate, the sum over one row of the matrix
RECURSIVE row_coherence(_, _, _)
row_coherence(row, j, coherence) ==
    IF j > Len(row) \/ Failed(coherence) THEN coherence
    ELSE row_coherence(row, j + 1, Add_add(coherence, Mul_mul(row[j], row[j])))

\* calculate_retrogate, the sum over the matrix
RECURSIVE matrix_coherence(_, _, _)
matrix_coherence(retro_matrix, i, coherence) ==
    IF i > Len(retro_matrix) \/ Failed(coherence) THEN coherence
    ELSE matrix_coherence(retro_matrix, i + 1, row_coherence(retro_matrix[i], 1, coherence))

\* calculate_retrogate from the phase estimation on
retrogate_of(n, estimation) ==
    IF Failed(estimation.total_phase) THEN estimation.total_phase
    ELSE Div_div(matrix_coherence(estimation.retro_matrix, 1, new(0, 8)), new(n * n, 0))

\* QuantumRetrogate::calculate_retrogate: the coherence it returns (its caller
\* drops the retrogate)
calculate_retrogate(self) ==
    retrogate_of(Len(self.amplitudes),
                 phase_estimation(self, 0, Len(self.amplitudes), new(0, 8), <<>>))

----------------------------------------------------------------------------
(* TallyRecorder (orchestration/tally/mod.rs) *)

CHUNK_SIZE == 32

\* the RealityLayer that record_observation inserts for a partition it does not
\* track
RealityLayer_new(new_state) ==
    [state_vector |-> new_state, observer_count |-> 0, stability |-> new(1000, 3),
     coherence |-> new(1000, 3), entanglement |-> <<>>]

\* extend_from_slice(&value.to_le_bytes()) for each element of a vector
RECURSIVE value_bytes(_, _)
value_bytes(vector, i) ==
    IF i > Len(vector) THEN <<>>
    ELSE to_le_bytes(vector[i].value) \o value_bytes(vector, i + 1)

\* record_observation's operation_data
operation_data(layer_id, amplitudes, phases) ==
    LowBytes(layer_id, 8) \o value_bytes(amplitudes, 1) \o value_bytes(phases, 1)

\* record_observation's quantum_data
quantum_data(new_state) == value_bytes(new_state.amplitudes, 1)

\* How a call ends: the recorder it leaves, what the caller gets ("panic" and
\* "no return" for a call that does not return), and the overlap of Ok.
Ended(self, result, overlap) == [self |-> self, result |-> result, overlap |-> overlap]

\* the loop over chunks(CHUNK_SIZE) from chunk i on, each chunk with a new
\* QuantumRetrogate of n_qubits
RECURSIVE chunk_coherence(_, _, _, _, _)
chunk_coherence(amplitudes, phases, n_qubits, i, coherence) ==
    IF i * CHUNK_SIZE >= Len(amplitudes) \/ Failed(coherence) THEN coherence
    ELSE chunk_coherence(
             amplitudes, phases, n_qubits, i + 1,
             Add_add(coherence,
                     calculate_retrogate(
                         update_state(QuantumRetrogate_new(n_qubits),
                                      SubSeq(amplitudes, i * CHUNK_SIZE + 1,
                                             Min((i + 1) * CHUNK_SIZE, Len(amplitudes))),
                                      SubSeq(phases, i * CHUNK_SIZE + 1,
                                             Min((i + 1) * CHUNK_SIZE, Len(amplitudes)))))))

\* record_observation, lines 221-237: the coherence of another layer, its
\* phases taken as 0
other_coherence(amplitudes) ==
    Div_div(chunk_coherence(amplitudes, [k \in 1..Len(amplitudes) |-> new(0, 8)], 3, 0,
                            new(0, 8)),
            new(Len(amplitudes) \div CHUNK_SIZE, 0))

\* entanglement_updates.push((other_id, entanglement)); last is the value
\* pushed, or the value that failed
pushed(updates, other_id, entanglement) ==
    [last |-> entanglement, list |-> Append(updates.list, <<other_id, entanglement>>)]

\* record_observation, lines 219-243: the other layers in the order in which
\* reality_layers.iter() hands them out
RECURSIVE entanglement_updates(_, _, _, _, _)
entanglement_updates(self, coherence, order, i, updates) ==
    IF i > Len(order) \/ Failed(updates.last) THEN updates
    ELSE entanglement_updates(
             self, coherence, order, i + 1,
             pushed(updates, order[i],
                    Mul_mul(coherence,
                            other_coherence(
                                self.reality_layers[order[i]].state_vector.amplitudes))))

\* layer.entanglement.insert for each update
RECURSIVE inserted(_, _, _)
inserted(entanglement, list, i) ==
    IF i > Len(list) THEN entanglement
    ELSE inserted((list[i][1] :> list[i][2]) @@ entanglement, list, i + 1)

\* record_observation, lines 245-255
entangled(self, layer_id, overlap, coherence, updates) ==
    IF Failed(updates.last) THEN Ended(self, Abort(updates.last), overlap)
    ELSE Ended([self EXCEPT
                   !.reality_layers[layer_id].coherence = coherence,
                   !.reality_layers[layer_id].entanglement =
                       inserted(@, updates.list, 1)],
               "Ok", overlap)

\* record_observation, lines 212-243
normalised(self, layer_id, overlap, coherence, order) ==
    IF Failed(coherence) THEN Ended(self, Abort(coherence), overlap)
    ELSE entangled(self, layer_id, overlap, coherence,
                   entanglement_updates(self, coherence, order, 1,
                                        [last |-> coherence, list |-> <<>>]))

\* record_observation, lines 208-210
measured(self, layer_id, new_state, overlap, coherence, order) ==
    IF Failed(coherence) THEN Ended(self, Abort(coherence), overlap)
    ELSE normalised(self, layer_id, overlap,
                    Div_div(coherence,
                            new((Len(new_state.amplitudes) + CHUNK_SIZE - 1) \div CHUNK_SIZE,
                                0)),
                    order)

\* record_observation, lines 184-206
stabilised(self, layer_id, new_state, overlap, stability, order) ==
    IF Failed(stability) THEN Ended(self, Abort(stability), overlap)
    ELSE measured([self EXCEPT !.reality_layers[layer_id].stability = stability],
                  layer_id, new_state, overlap,
                  chunk_coherence(new_state.amplitudes, new_state.phases, 5, 0, new(0, 8)),
                  order)

\* record_observation, lines 180-184 (observer_count saturates at u32::MAX,
\* which no run of the model comes near)
overlapped(self, layer_id, new_state, overlap, order) ==
    IF Failed(overlap) THEN Ended(self, Abort(overlap), overlap)
    ELSE stabilised([self EXCEPT !.reality_layers[layer_id].observer_count = @ + 1],
                    layer_id, new_state, overlap,
                    min(mul(self.reality_layers[layer_id].stability, overlap), new(1000, 3)),
                    order)

\* record_observation, lines 168-180
tallied(self, layer_id, new_state, tally, order) ==
    overlapped([self EXCEPT !.tally_computer = tally.self,
                            !.latest_result = Some(tally.result),
                            !.reality_layers = or_insert(@, layer_id,
                                                         RealityLayer_new(new_state))],
               layer_id, new_state,
               calculate_overlap(or_insert(self.reality_layers, layer_id,
                                           RealityLayer_new(new_state))[layer_id].state_vector,
                                 new_state),
               order)

\* record_observation, lines 143-167; &[0u8; 32] has the length of a digest
observed(self, layer_id, amplitudes, phases, new_state, order) ==
    IF Failed(new_state.coherence) THEN Ended(self, Abort(new_state.coherence), new(0, 6))
    ELSE tallied([self EXCEPT !.observation_count = @ + 1], layer_id, new_state,
                 compute_tally(self.tally_computer, quantum_data(new_state),
                               operation_data(layer_id, amplitudes, phases), ZeroHash),
                 order)

\* A variant of record_observation that counts the observation before it
\* compares the lengths.
record_observation_CountsFirst(self, layer_id, amplitudes, phases, order) ==
    IF Len(amplitudes) # Len(phases)
    THEN Ended([self EXCEPT !.observation_count = @ + 1],
               "Err(Amplitude and phase vectors must have same length)", new(0, 6))
    ELSE observed(self, layer_id, amplitudes, phases,
                  QuantumStateVector_new(amplitudes, phases), order)

\* TallyRecorder::record_observation; order is the order in which
\* reality_layers.iter() hands out the other layers
record_observation(self, layer_id, amplitudes, phases, order) ==
    IF Len(amplitudes) # Len(phases)
    THEN Ended(self, "Err(Amplitude and phase vectors must have same length)", new(0, 6))
    ELSE observed(self, layer_id, amplitudes, phases,
                  QuantumStateVector_new(amplitudes, phases), order)

\* get_metrics, the loop over reality_layers.values()
RECURSIVE total_coherence(_, _, _, _)
total_coherence(self, order, i, total) ==
    IF i > Len(order) THEN total
    ELSE total_coherence(self, order, i + 1,
                         Add_add(total, self.reality_layers[order[i]].state_vector.coherence))

\* TallyRecorder::get_metrics
get_metrics(self, order) ==
    [total_observations |-> self.observation_count,
     active_layers      |-> Cardinality(DOMAIN self.reality_layers),
     mean_coherence     |-> IF DOMAIN self.reality_layers # {}
                            THEN div(total_coherence(self, order, 1, new(0, 3)),
                                     new(Cardinality(DOMAIN self.reality_layers), 0))
                            ELSE new(0, 3),
     coherent_states    |-> Cardinality({ id \in DOMAIN self.reality_layers :
                                cmp(self.reality_layers[id].state_vector.coherence,
                                    self.coherence_threshold) >= 0 }),
     latest_result      |-> self.latest_result]

----------------------------------------------------------------------------
(* Calls on one Orchestrator *)

\* observer ids, [u8; 32] in the program, of the length of a digest here
Observers == { [j \in 1..HashLen |-> n] : n \in 1..4 }

\* observed states, [u8; 64] in the program
StateA == [j \in 1..StateLen |-> IF j = 1 THEN 65 ELSE 0]
StateB == [j \in 1..StateLen |-> IF j = StateLen THEN 66 ELSE 0]
StateC == [j \in 1..StateLen |-> IF j = 2 THEN 67 ELSE 0]

ObservedStates == {StateA, StateB}

LayerIds == {1}

\* Confidences, as the callers build them with PreciseFloat::new.  All have
\* scale 18, the scale of the total that try_reach_consensus starts from, and
\* raw values small enough for the threshold to be a plain product.
Confidences == { new(-40, 18), new(40, 18) }

\* the [consensus_reached, final_state, confidence_score] of a tally
Outcome(tally) ==
    [consensus_reached |-> tally.consensus_reached, final_state |-> tally.final_state,
     confidence_score |-> tally.confidence_score]

NoCalls ==
    [op |-> "none", calls |-> 0, layer_id |-> 0, observer_id |-> <<>>, state |-> <<>>,
     confidence |-> new(0, 20), state_hash |-> <<>>, before |-> None, result |-> "none",
     latest |-> <<>>]

NoReplay ==
    [calls |-> <<>>, order |-> <<>>, done |-> 0,
     first |-> OrchestratorNew, second |-> OrchestratorNew]

\* the process is still running: no call has panicked or failed to return
Running == caller.result \notin {"panic", "no return"}

----------------------------------------------------------------------------
(* The hash chain driven by one caller *)

\* Byte strings handed to compute_tally. An operation shorter than a digest is
\* cycled; a proof exactly a digest long is used as it is, any other is hashed.
StateInputs     == { <<>>, <<120>>, <<3, 200, 41>> }
OperationInputs == { <<>>, <<7>> }
ProofInputs     == { <<>>, <<5>>, [j \in 1..HashLen |-> 16 * j + 1] }

NonEmpty(state, operation, proof) == state # <<>> /\ operation # <<>> /\ proof # <<>>

NoCall == [called |-> FALSE, state |-> <<>>, operation |-> <<>>, proof |-> <<>>,
           before |-> TallyComputerNew, result |-> TallyResult(ZeroHash, 0)]

NotVerified == [done |-> FALSE, commit |-> 0, ok |-> FALSE]

\* Two TallyComputers before any call.
NoTwin == [first |-> TallyComputerNew, second |-> TallyComputerNew,
           log |-> <<>>, taken |-> {}, both |-> FALSE,
           result1 |-> TallyResult(ZeroHash, 0), result2 |-> TallyResult(ZeroHash, 0),
           verified |-> NotVerified]

\* One TallyLayer before any call.
NoTransition ==
    [self |-> TallyLayer_new, calls |-> 0, op |-> "none",
     state |-> <<>>, operation |-> <<>>, proof |-> <<>>, before |-> TallyLayer_new,
     result |-> TransitionErr(""), verified |-> FALSE]

\* no PreciseFloat operation yet
NoArith == [op |-> "none", args |-> <<>>, result |-> new(0, 3)]

\* the caller of a TallyRecorder before any call: before is the recorder as it
\* was when the most recent call was made, succeeded the layer ids of the
\* record_observation calls that returned Ok, in the order of the calls
NoObservation ==
    [op |-> "none", calls |-> 0, layer_id |-> 0, amplitudes |-> <<>>, phases |-> <<>>,
     before |-> TallyRecorder_new(new(0, 3)), result |-> "none", overlap |-> new(0, 6),
     succeeded |-> <<>>, metrics |-> get_metrics(TallyRecorder_new(new(0, 3)), <<>>)]

\* the TallyRecorder of the runs that make no call on it
NoRecorder == TallyRecorder_new(new(0, 3))

\* The callers of the shared TallyComputer.
Callers == {1, 2}

\* One TallyComputer shared by two callers, before either has called.  args are
\* the arguments of the callers' compute_tally calls, pc where each caller is
\* in its call, final_hash each call's local of that name.
NoRace == [serialized |-> TRUE, self |-> TallyComputerNew,
           args |-> [p \in Callers |-> <<>>],
           pc |-> [p \in Callers |-> "before"],
           final_hash |-> [p \in Callers |-> ZeroHash]]

ChainInit ==
    /\ computer = TallyComputerNew
    /\ commits = <<>>
    /\ last = NoCall
    /\ verified = NotVerified
    /\ orchestrator = OrchestratorNew
    /\ caller = NoCalls
    /\ replay = NoReplay
    /\ twin = NoTwin
    /\ layer = NoTransition
    /\ race = NoRace
    /\ arith = NoArith
    /\ recorder = NoRecorder
    /\ observation = NoObservation

\* One compute_tally call. The caller notes the arguments, the accumulator as it
\* was before the call and the result it got back.
ComputeTally ==
    /\ Len(commits) < MaxCommits
    /\ \E state \in StateInputs, operation \in OperationInputs, proof \in ProofInputs :
          LET r    == compute_tally(computer, state, operation, proof)
              call == [called |-> TRUE, state |-> state, operation |-> operation,
                       proof |-> proof, before |-> computer, result |-> r.result]
          IN  /\ computer' = r.self
              /\ last' = call
              /\ commits' = IF NonEmpty(state, operation, proof)
                            THEN Append(commits, call) ELSE commits
    /\ verified' = NotVerified
    /\ UNCHANGED <<orchestrator, caller, replay, twin, layer, race, arith, recorder,
                   observation>>

\* One verify_tally call with the result and the arguments of an earlier
\* compute_tally call.
VerifyTally ==
    /\ \E k \in 1..Len(commits) :
          verified' = [done |-> TRUE, commit |-> k,
                       ok |-> verify_tally(computer, commits[k].result, commits[k].state,
                                           commits[k].operation, commits[k].proof)]
    /\ UNCHANGED <<computer, commits, last, orchestrator, caller, replay, twin, layer, race,
                   arith, recorder, observation>>

ChainNext == ComputeTally \/ VerifyTally

SpecChain == ChainInit /\ [][ChainNext]_vars

----------------------------------------------------------------------------
(* Two TallyComputers.  The first is given every call; the second is given    *)
(* the same call or is left out.                                              *)

\* The precisions TallyComputer::new is called with in the repository: 18 by
\* TallyRecorder::new, 20 by tests::test_tally_computation.
Precisions == {18, 20}

TwinInit ==
    /\ \E p1 \in Precisions, p2 \in Precisions :
          twin = [NoTwin EXCEPT !.first = TallyComputer_new(p1),
                                !.second = TallyComputer_new(p2)]
    /\ computer = TallyComputerNew
    /\ commits = <<>>
    /\ last = NoCall
    /\ verified = NotVerified
    /\ orchestrator = OrchestratorNew
    /\ caller = NoCalls
    /\ replay = NoReplay
    /\ layer = NoTransition
    /\ race = NoRace
    /\ arith = NoArith
    /\ recorder = NoRecorder
    /\ observation = NoObservation

\* The log of the first TallyComputer after a call: its accepted commits with
\* their arguments and results.
Logged(log, state, operation, proof, result) ==
    IF NonEmpty(state, operation, proof)
    THEN Append(log, [state |-> state, operation |-> operation, proof |-> proof,
                      result |-> result])
    ELSE log

\* compute_tally with the same arguments on both TallyComputers.
CommitBoth ==
    /\ Len(twin.log) < MaxCommits
    /\ \E state \in StateInputs, operation \in OperationInputs, proof \in ProofInputs :
          LET r1 == compute_tally(twin.first, state, operation, proof)
              r2 == compute_tally(twin.second, state, operation, proof)
              log == Logged(twin.log, state, operation, proof, r1.result)
          IN  twin' = [twin EXCEPT !.first = r1.self, !.second = r2.self,
                                   !.log = log,
                                   !.taken = IF Len(log) > Len(twin.log)
                                             THEN @ \cup {Len(log)} ELSE @,
                                   !.both = TRUE,
                                   !.result1 = r1.result, !.result2 = r2.result,
                                   !.verified = NotVerified]
    /\ UNCHANGED <<computer, commits, last, verified, orchestrator, caller, replay, layer,
                   race, arith, recorder, observation>>

\* compute_tally on the first TallyComputer only.
CommitFirst ==
    /\ Len(twin.log) < MaxCommits
    /\ \E state \in StateInputs, operation \in OperationInputs, proof \in ProofInputs :
          /\ NonEmpty(state, operation, proof)
          /\ LET r1 == compute_tally(twin.first, state, operation, proof)
             IN  twin' = [twin EXCEPT !.first = r1.self,
                                      !.log = Logged(@, state, operation, proof, r1.result),
                                      !.both = FALSE,
                                      !.result1 = r1.result,
                                      !.verified = NotVerified]
    /\ UNCHANGED <<computer, commits, last, verified, orchestrator, caller, replay, layer,
                   race, arith, recorder, observation>>

\* verify_tally on the second TallyComputer, against the latest result of the
\* first and with the arguments of one of the first's commits.
VerifyOnSecond ==
    /\ twin.log # <<>>
    /\ \E k \in 1..Len(twin.log) :
          twin' = [twin EXCEPT !.verified =
                      [done |-> TRUE, commit |-> k,
                       ok |-> verify_tally(twin.second, twin.log[Len(twin.log)].result,
                                           twin.log[k].state, twin.log[k].operation,
                                           twin.log[k].proof)]]
    /\ UNCHANGED <<computer, commits, last, verified, orchestrator, caller, replay, layer,
                   race, arith, recorder, observation>>

TwinNext == CommitBoth \/ CommitFirst \/ VerifyOnSecond

SpecTwin == TwinInit /\ [][TwinNext]_vars

----------------------------------------------------------------------------
(* The Orchestrator driven by one caller *)

TallyInit ==
    /\ orchestrator = OrchestratorNew
    /\ caller = NoCalls
    /\ replay = NoReplay
    /\ twin = NoTwin
    /\ computer = TallyComputerNew
    /\ commits = <<>>
    /\ last = NoCall
    /\ verified = NotVerified
    /\ layer = NoTransition
    /\ race = NoRace
    /\ arith = NoArith
    /\ recorder = NoRecorder
    /\ observation = NoObservation

\* One register_observation call with arguments from the given sets.  The clock
\* read by the call advances by one per call.  The caller notes the arguments,
\* the tally as it was before the call, the result, and for every tally and
\* observer the vote of the observer's most recent call.
Register(layers, observers, states, confidences, limit) ==
    /\ Running
    /\ caller.calls < limit
    /\ \E layer_id \in layers, observer_id \in observers, state \in states,
          confidence \in confidences :
          LET now        == caller.calls + 1
              state_hash == calculate_state_hash(state)
              recorded   == record_vote(orchestrator, layer_id, observer_id, state,
                                        confidence, now)
              vote       == [observer_id |-> observer_id, observed_state |-> state,
                             observation_time |-> now, confidence |-> confidence]
          IN  \E order \in Orders(recorded.quantum_tallies[state_hash].observer_votes) :
                 LET r == register_observation(orchestrator, layer_id, observer_id, state,
                                               confidence, now, order)
                 IN  /\ orchestrator' = r.self
                     /\ caller' = [op |-> "register_observation", calls |-> now,
                                   layer_id |-> layer_id, observer_id |-> observer_id,
                                   state |-> state, confidence |-> confidence,
                                   state_hash |-> state_hash,
                                   before |-> get_consensus_state(orchestrator, state_hash),
                                   result |-> r.result,
                                   latest |-> (<<state_hash, observer_id>> :> vote)
                                              @@ caller.latest]
    /\ UNCHANGED <<replay, computer, commits, last, verified, twin, layer, race, arith,
                   recorder, observation>>

RegisterObservation == Register(LayerIds, Observers, ObservedStates, Confidences, MaxCalls)

\* One try_reach_consensus call by the caller, with the hash of a state.
TryReachConsensus ==
    /\ Running
    /\ caller.calls < MaxCalls
    /\ \E state \in ObservedStates :
          LET state_hash == calculate_state_hash(state)
              before     == get_consensus_state(orchestrator, state_hash)
              votes      == IF before = None THEN {} ELSE before[1].observer_votes
          IN  \E order \in Orders(votes) :
                 LET r == try_reach_consensus(orchestrator, state_hash, order)
                 IN  /\ orchestrator' = r.self
                     /\ caller' = [caller EXCEPT !.op = "try_reach_consensus",
                                                 !.calls = @ + 1,
                                                 !.state = state,
                                                 !.state_hash = state_hash,
                                                 !.before = before,
                                                 !.result = r.result]
    /\ UNCHANGED <<replay, computer, commits, last, verified, twin, layer, race, arith,
                   recorder, observation>>

TallyNext == RegisterObservation \/ TryReachConsensus

SpecTally == TallyInit /\ [][TallyNext]_vars

----------------------------------------------------------------------------
(* The worked examples of the consensus threshold: three observers, three     *)
(* states, confidences 40, 35, 25 and 20.                                      *)

\* register_observation calls made in an example
MaxExampleCalls == 3

ExampleObservers == { [j \in 1..HashLen |-> n] : n \in 1..3 }
ExampleStates == {StateA, StateB, StateC}
ExampleConfidences == { new(40, 18), new(35, 18), new(25, 18), new(20, 18) }

RegisterExample ==
    Register({1}, ExampleObservers, ExampleStates, ExampleConfidences, MaxExampleCalls)

ExampleNext == RegisterExample

SpecExample == TallyInit /\ [][ExampleNext]_vars

----------------------------------------------------------------------------
(* The same register_observation calls made on two Orchestrators in two       *)
(* orders.                                                                     *)

\* every observer may vote for StateA with confidence -40; the first may also
\* vote for it with confidence 40
ReplayCalls ==
    { [layer_id |-> 1, observer_id |-> o, state |-> StateA, confidence |-> new(-40, 18)] :
          o \in ExampleObservers }
    \cup { [layer_id |-> 1, observer_id |-> [j \in 1..HashLen |-> 1], state |-> StateA,
            confidence |-> new(40, 18)] }

OrderInit ==
    /\ replay \in { [calls |-> c, order |-> p, done |-> 0,
                     first |-> OrchestratorNew, second |-> OrchestratorNew] :
                        c \in [1..MaxCalls -> ReplayCalls], p \in Orders(1..MaxCalls) }
    /\ orchestrator = OrchestratorNew
    /\ caller = NoCalls
    /\ computer = TallyComputerNew
    /\ commits = <<>>
    /\ last = NoCall
    /\ verified = NotVerified
    /\ twin = NoTwin
    /\ layer = NoTransition
    /\ race = NoRace
    /\ arith = NoArith
    /\ recorder = NoRecorder
    /\ observation = NoObservation

\* The next call of the sequence is made on the first Orchestrator, the next
\* call of the reordered sequence on the second.
ReplayStep ==
    /\ replay.done < Len(replay.calls)
    /\ LET i  == replay.done + 1
           c1 == replay.calls[i]
           c2 == replay.calls[replay.order[i]]
           votes1 == record_vote(replay.first, c1.layer_id, c1.observer_id, c1.state,
                                 c1.confidence, i)
                         .quantum_tallies[calculate_state_hash(c1.state)].observer_votes
           votes2 == record_vote(replay.second, c2.layer_id, c2.observer_id, c2.state,
                                 c2.confidence, i)
                         .quantum_tallies[calculate_state_hash(c2.state)].observer_votes
       IN  \E order1 \in Orders(votes1), order2 \in Orders(votes2) :
              LET r1 == register_observation(replay.first, c1.layer_id, c1.observer_id,
                                             c1.state, c1.confidence, i, order1)
                  r2 == register_observation(replay.second, c2.layer_id, c2.observer_id,
                                             c2.state, c2.confidence, i, order2)
              IN  /\ r1.result = "Ok(())"
                  /\ r2.result = "Ok(())"
                  /\ replay' = [replay EXCEPT !.done = i, !.first = r1.self,
                                              !.second = r2.self]
    /\ UNCHANGED <<orchestrator, caller, computer, commits, last, verified, twin, layer,
                   race, arith, recorder, observation>>

OrderNext == ReplayStep

SpecOrder == OrderInit /\ [][OrderNext]_vars

----------------------------------------------------------------------------
(* One TallyLayer driven by one caller *)

LayerInit ==
    /\ layer = NoTransition
    /\ computer = TallyComputerNew
    /\ commits = <<>>
    /\ last = NoCall
    /\ verified = NotVerified
    /\ orchestrator = OrchestratorNew
    /\ caller = NoCalls
    /\ replay = NoReplay
    /\ twin = NoTwin
    /\ race = NoRace
    /\ arith = NoArith
    /\ recorder = NoRecorder
    /\ observation = NoObservation

\* One compute_state_transition call.  The caller notes the arguments, the
\* TallyLayer as it was before the call and the result.
ComputeStateTransition ==
    /\ layer.calls < MaxTransitions
    /\ \E state \in StateInputs, operation \in OperationInputs, proof \in ProofInputs :
          LET r == compute_state_transition(layer.self, state, operation, proof)
          IN  layer' = [self |-> r.self, calls |-> layer.calls + 1,
                        op |-> "compute_state_transition",
                        state |-> state, operation |-> operation, proof |-> proof,
                        before |-> layer.self, result |-> r.result, verified |-> FALSE]
    /\ UNCHANGED <<computer, commits, last, verified, orchestrator, caller, replay, twin,
                   race, arith, recorder, observation>>

\* verify_transition called right after a compute_state_transition that returned
\* Ok(h), with the same arguments and h.
VerifyTransition ==
    /\ layer.op = "compute_state_transition"
    /\ layer.result.ok
    /\ layer' = [layer EXCEPT !.op = "verify_transition",
                              !.verified = verify_transition(layer.self, layer.state,
                                               layer.operation, layer.proof,
                                               layer.result.hash)]
    /\ UNCHANGED <<computer, commits, last, verified, orchestrator, caller, replay, twin,
                   race, arith, recorder, observation>>

LayerNext == ComputeStateTransition \/ VerifyTransition

SpecLayer == LayerInit /\ [][LayerNext]_vars

----------------------------------------------------------------------------
(* Two callers of one TallyComputer.  Each makes one compute_tally call with    *)
(* non-empty arguments.  Either the calls are serialized (a caller enters its   *)
(* call only when the other is not inside one, as &mut self demands), or they   *)
(* are not and their steps interleave.                                          *)

CommitArgs ==
    { <<state, operation, proof>> :
          state \in StateInputs \ {<<>>}, operation \in OperationInputs \ {<<>>},
          proof \in ProofInputs \ {<<>>} }

RaceInit ==
    /\ \E serialized \in BOOLEAN, a1 \in CommitArgs, a2 \in CommitArgs :
          race = [NoRace EXCEPT !.serialized = serialized,
                                !.args = [p \in Callers |-> IF p = 1 THEN a1 ELSE a2]]
    /\ layer = NoTransition
    /\ computer = TallyComputerNew
    /\ commits = <<>>
    /\ last = NoCall
    /\ verified = NotVerified
    /\ orchestrator = OrchestratorNew
    /\ caller = NoCalls
    /\ replay = NoReplay
    /\ twin = NoTwin
    /\ arith = NoArith
    /\ recorder = NoRecorder
    /\ observation = NoObservation

Inside(p) == race.pc[p] \in {"saved", "derived", "stored"}

\* line 51: self.previous_hash = self.current_hash
SavePrevious(p) ==
    /\ race.pc[p] = "before"
    /\ race.serialized => \A q \in Callers : ~Inside(q)
    /\ race' = [race EXCEPT !.self = save_previous(@), !.pc[p] = "saved"]

\* lines 54-91: final_hash is derived from operation_count and previous_hash
DeriveFinal(p) ==
    /\ race.pc[p] = "saved"
    /\ race' = [race EXCEPT !.final_hash[p] =
                                derive_final(race.self, race.args[p][1], race.args[p][2],
                                             race.args[p][3]),
                            !.pc[p] = "derived"]

\* line 93: self.current_hash = final_hash
StoreCurrent(p) ==
    /\ race.pc[p] = "derived"
    /\ race' = [race EXCEPT !.self = store_current(@, race.final_hash[p]),
                            !.pc[p] = "stored"]

\* line 94: self.operation_count += 1
CountOperation(p) ==
    /\ race.pc[p] = "stored"
    /\ race' = [race EXCEPT !.self = count_operation(@), !.pc[p] = "done"]

RaceStep(p) == SavePrevious(p) \/ DeriveFinal(p) \/ StoreCurrent(p) \/ CountOperation(p)

RaceNext ==
    /\ \E p \in Callers : RaceStep(p)
    /\ UNCHANGED <<computer, commits, last, verified, orchestrator, caller, replay, twin,
                   layer, arith, recorder, observation>>

SpecRace == RaceInit /\ [][RaceNext]_vars

----------------------------------------------------------------------------
(* PreciseFloat operations applied by one caller *)

ArithInit ==
    /\ arith = NoArith
    /\ computer = TallyComputerNew
    /\ commits = <<>>
    /\ last = NoCall
    /\ verified = NotVerified
    /\ orchestrator = OrchestratorNew
    /\ caller = NoCalls
    /\ replay = NoReplay
    /\ twin = NoTwin
    /\ layer = NoTransition
    /\ race = NoRace
    /\ recorder = NoRecorder
    /\ observation = NoObservation

\* The operands: values at three decimals, values at eighteen, dividends whose
\* product with 10^6 a 32-bit integer holds, angles, arguments of ln that take
\* each of its branches but the series, arguments of the constructors.
Thousandths  == { new(v, 3) : v \in {-3000, -2000, -5, 0, 2, 1000, 1050, 2000, 3000} }
Fine         == { new(2, 18), new(3, 18) }
Dividends    == { new(v, 3) : v \in {-2000, -5, 0, 2, 1000, 2000} }
Angles       == { new(v, 3) : v \in {-9000, -3142, -1571, -700, 0, 700, 1571, 2500, 9000} }
LnArguments  == { new(v, 3) : v \in {-5, 0, 950, 1000, 1050, 2000000000} }
ConstructorValues == {-2000000000, -5, 0, 7, 2000000000}
ConstructorScales == {0, 1, 3, 18, 19, 255}
Floats       == { F64("nan", 0), F64("infinite", 0) } \cup
                { F64("finite", halves) : halves \in {-5, 0, 3, 4} }
SmallScales  == {0, 1, 3}

\* The caller notes the operation, its arguments and its result.
Applied(op, args, result) ==
    /\ arith' = [op |-> op, args |-> args, result |-> result]
    /\ UNCHANGED <<computer, commits, last, verified, orchestrator, caller, replay, twin,
                   layer, race, recorder, observation>>

ApplyNew ==
    \E value \in ConstructorValues, scale \in ConstructorScales :
        Applied("new", <<value, scale>>, new(value, scale))

ApplyFromF64 ==
    \E val \in Floats, scale \in SmallScales :
        Applied("from_f64", <<val, scale>>, from_f64(val, scale))

ApplyAdd ==
    \E self \in Thousandths, other \in Thousandths :
        Applied("add", <<self, other>>, add(self, other))

ApplySub ==
    \E self \in Thousandths, other \in Thousandths :
        Applied("sub", <<self, other>>, sub(self, other))

ApplyAddOperator ==
    \E self \in Thousandths, other \in Thousandths :
        Applied("+", <<self, other>>, Add_add(self, other))

ApplyMulOperator ==
    \E self \in Thousandths \cup Fine, other \in Thousandths \cup Fine :
        Applied("*", <<self, other>>, Mul_mul(self, other))

ApplyMulByReference ==
    \E self \in Thousandths \cup Fine, other \in Thousandths \cup Fine :
        Applied("* &", <<self, other>>, Mul_ref_mul_in(self, other, {}))

ApplyDivOperator ==
    \E self \in Dividends, other \in Thousandths \cup Fine :
        Applied("/", <<self, other>>, Div_div(self, other))

ApplyDivByReference ==
    \E self \in Dividends, other \in Thousandths \cup Fine :
        Applied("/ &", <<self, other>>, Div_ref_div(self, other))

ApplyCos == \E self \in Angles : Applied("cos", <<self>>, cos(self))

ApplySin == \E self \in Angles : Applied("sin", <<self>>, sin(self))

ApplyLn == \E self \in LnArguments : Applied("ln", <<self>>, ln(self))

ApplyExp == \E self \in Thousandths : Applied("exp", <<self>>, exp(self))

ArithNext ==
    \/ ApplyNew \/ ApplyFromF64
    \/ ApplyAdd \/ ApplySub
    \/ ApplyAddOperator \/ ApplyMulOperator \/ ApplyMulByReference
    \/ ApplyDivOperator \/ ApplyDivByReference
    \/ ApplyCos \/ ApplySin \/ ApplyLn \/ ApplyExp

SpecArith == ArithInit /\ [][ArithNext]_vars

----------------------------------------------------------------------------
(* The TallyRecorder driven by one caller *)

\* Calls made on one TallyRecorder.
MaxObservations == 3

RecorderLayers  == {1, 2}
Thresholds      == { new(500, 3), new(900, 3) }
AmplitudeInputs == { <<>>, <<new(707, 3)>>, <<new(707, 3), new(707, 3)>> }
PhaseInputs     == { <<>>, <<new(0, 3)>>, <<new(0, 3), new(1571, 3)>> }

\* The vectors handed to record_observation: every pair of different lengths,
\* and the pair of empty vectors.  (With elements in both, the call goes into
\* calculate_retrogate, where factorial_phase(5) and the ln under it work on
\* values from 10^11 on, past the 32-bit integers these definitions are
\* evaluated with.)
ObservationInputs ==
    { input \in AmplitudeInputs \X PhaseInputs :
          Len(input[1]) # Len(input[2]) \/ input[1] = <<>> }

\* no call has panicked or failed to return
Recording == observation.result \notin {"panic", "no return"}

RecorderInit ==
    /\ \E coherence_threshold \in Thresholds :
          recorder = TallyRecorder_new(coherence_threshold)
    /\ observation = NoObservation
    /\ computer = TallyComputerNew
    /\ commits = <<>>
    /\ last = NoCall
    /\ verified = NotVerified
    /\ orchestrator = OrchestratorNew
    /\ caller = NoCalls
    /\ replay = NoReplay
    /\ twin = NoTwin
    /\ layer = NoTransition
    /\ race = NoRace
    /\ arith = NoArith

\* The caller notes the recorder as it was, the arguments of a
\* record_observation call and how the call ended.
Recorded(layer_id, amplitudes, phases, ended) ==
    /\ recorder' = ended.self
    /\ observation' = [observation EXCEPT
                          !.op = "record_observation",
                          !.calls = @ + 1,
                          !.layer_id = layer_id,
                          !.amplitudes = amplitudes,
                          !.phases = phases,
                          !.before = recorder,
                          !.result = ended.result,
                          !.overlap = ended.overlap,
                          !.succeeded = IF ended.result = "Ok" THEN Append(@, layer_id)
                                        ELSE @]

\* One record_observation call.
RecordObservation ==
    /\ Recording
    /\ observation.calls < MaxObservations
    /\ \E layer_id \in RecorderLayers, input \in ObservationInputs :
          \E order \in Orders(DOMAIN recorder.reality_layers \ {layer_id}) :
              Recorded(layer_id, input[1], input[2],
                       record_observation(recorder, layer_id, input[1], input[2], order))
    /\ UNCHANGED <<computer, commits, last, verified, orchestrator, caller, replay, twin,
                   layer, race, arith>>

\* One get_metrics call.
GetMetrics ==
    /\ Recording
    /\ observation.calls < MaxObservations
    /\ \E order \in Orders(DOMAIN recorder.reality_layers) :
          observation' = [observation EXCEPT !.op = "get_metrics",
                                             !.calls = @ + 1,
                                             !.before = recorder,
                                             !.result = "metrics",
                                             !.metrics = get_metrics(recorder, order)]
    /\ UNCHANGED <<recorder, computer, commits, last, verified, orchestrator, caller,
                   replay, twin, layer, race, arith>>

RecorderNext == RecordObservation \/ GetMetrics

SpecRecorder == RecorderInit /\ [][RecorderNext]_vars

----------------------------------------------------------------------------
(* Orchestrator: properties *)

Tallies == orchestrator.quantum_tallies

\* the observers that have a vote among votes
VotersOf(votes) == { v.observer_id : v \in votes }

\* The most recent call was a register_observation that returned.
Registered == caller.op = "register_observation" /\ caller.result = "Ok(())"

\* The call found its tally decided already.
DecidedBefore == caller.before # None /\ caller.before[1].consensus_reached

\* C1: once a tally has consensus_reached = true, no later register_observation
\* or try_reach_consensus call, whether it resubmits a vote or brings a new
\* observer, changes its consensus_reached, final_state or confidence_score.
C1_DecidedTallyIsFrozen ==
    [][\A h \in DOMAIN orchestrator.quantum_tallies :
           orchestrator.quantum_tallies[h].consensus_reached =>
               /\ h \in DOMAIN orchestrator'.quantum_tallies
               /\ Outcome(orchestrator'.quantum_tallies[h])
                      = Outcome(orchestrator.quantum_tallies[h])]_vars

\* A new observer has voted on a tally that was decided, and the vote is held.
C1_Witness ==
    /\ Registered
    /\ DecidedBefore
    /\ caller.observer_id \notin VotersOf(caller.before[1].observer_votes)
    /\ caller.observer_id \in VotersOf(Tallies[caller.state_hash].observer_votes)

\* the sum of the raw values of the confidences (the confidences of the model
\* have one scale, so the raw values compare and add as the confidences do)
RECURSIVE SumOfValues(_)
SumOfValues(votes) ==
    IF votes = {} THEN 0
    ELSE LET v == CHOOSE w \in votes : TRUE
         IN  v.confidence.value + SumOfValues(votes \ {v})

\* the summed confidence of the votes for a state
WeightFor(votes, state) == SumOfValues({ v \in votes : v.observed_state = state })

\* a state of largest summed confidence
Heaviest(votes) ==
    CHOOSE s \in { v.observed_state : v \in votes } :
        \A v \in votes : WeightFor(votes, v.observed_state) <= WeightFor(votes, s)

\* y = x * 10^n
RECURSIVE TimesTenTo(_, _, _)
TimesTenTo(x, n, y) ==
    IF n = 0 THEN x = y ELSE y % 10 = 0 /\ TimesTenTo(x, n - 1, y \div 10)

\* score = numerator / denominator, as numbers
IsRatio(score, numerator, denominator) ==
    TimesTenTo(numerator, score.scale, score.value * denominator)

\* The most recent call was a register_observation that evaluated its tally:
\* the tally was undecided, holds votes of at least 3 observers, all with
\* positive confidence, and the call returned.
Evaluated ==
    /\ Registered
    /\ ~DecidedBefore
    /\ Cardinality(VotersOf(Tallies[caller.state_hash].observer_votes)) >= 3
    /\ \A v \in Tallies[caller.state_hash].observer_votes : v.confidence.value > 0

\* C2: with votes from at least 3 distinct observers, try_reach_consensus sums
\* the confidences per distinct observed state; consensus is reached exactly when
\* the largest sum is at least 75% of the total of all confidences; final_state
\* is then the state of the largest sum and confidence_score is that sum divided
\* by the total.
C2_ThresholdRule ==
    Evaluated =>
        LET tally == Tallies[caller.state_hash]
            votes == tally.observer_votes
            best  == Heaviest(votes)
        IN  /\ tally.consensus_reached
                   <=> 4 * WeightFor(votes, best) >= 3 * SumOfValues(votes)
            /\ tally.consensus_reached =>
                   /\ tally.final_state = Some(best)
                   /\ IsRatio(tally.confidence_score, WeightFor(votes, best),
                              SumOfValues(votes))

\* all votes held, as <<observer, state, raw confidence>>
AllVotes ==
    { <<v.observer_id, v.observed_state, v.confidence.value>> :
          v \in UNION { Tallies[h].observer_votes : h \in DOMAIN Tallies } }

\* three observers have made one call each, with these states and confidences
ThreeVotes(s1, c1, s2, c2, s3, c3) ==
    /\ caller.calls = 3
    /\ \E o1, o2, o3 \in ExampleObservers :
          /\ Cardinality({o1, o2, o3}) = 3
          /\ AllVotes = { <<o1, s1, c1>>, <<o2, s2, c2>>, <<o3, s3, c3>> }

\* C3: votes with confidences 40, 40 and 20 for the states A, A and B reach
\* consensus on A (80% >= 75%); votes with confidences 40, 35 and 25 for A, B and
\* C reach no consensus.
C3_ThresholdExamples ==
    /\ ThreeVotes(StateA, 40, StateA, 40, StateB, 20) =>
           \E h \in DOMAIN Tallies :
               Tallies[h].consensus_reached /\ Tallies[h].final_state = Some(StateA)
    /\ ThreeVotes(StateA, 40, StateB, 35, StateC, 25) =>
           \A h \in DOMAIN Tallies : ~Tallies[h].consensus_reached

\* C4: a tally with votes of fewer than 3 distinct observers is not
\* consensus-reached: a decided tally holds the votes of at least 3 observers,
\* as it did when it was decided (votes are replaced, never removed).
C4_QuorumOfThree ==
    \A h \in DOMAIN Tallies :
        Tallies[h].consensus_reached =>
            Cardinality(VotersOf(Tallies[h].observer_votes)) >= 3

\* A tally that held the votes of 3 observers and was left undecided is
\* evaluated again on the next vote and decided by it.
C4_Witness ==
    /\ Registered
    /\ caller.before # None
    /\ ~caller.before[1].consensus_reached
    /\ Cardinality(VotersOf(caller.before[1].observer_votes)) >= 3
    /\ Tallies[caller.state_hash].consensus_reached

\* C5: a tally holds at most one vote per observer: the votes it holds are, for
\* every observer that has called register_observation for its state, the vote
\* of that observer's most recent call, and as many as there are such observers.
C5_OneVotePerObserver ==
    \A h \in DOMAIN Tallies :
        LET votes == Tallies[h].observer_votes
            filed == { k \in DOMAIN caller.latest : k[1] = h }
        IN  /\ votes = { caller.latest[k] : k \in filed }
            /\ Cardinality(votes) = Cardinality({ k[2] : k \in filed })
            /\ \A v, w \in votes : v.observer_id = w.observer_id => v = w

\* An observer has voted again for the same state with another confidence.
C5_Witness ==
    /\ Registered
    /\ caller.before # None
    /\ \E v \in caller.before[1].observer_votes :
          /\ v.observer_id = caller.observer_id
          /\ v.confidence # caller.confidence
    /\ Cardinality(Tallies[caller.state_hash].observer_votes) >= 2

\* the calls of the replay in the order in which the second Orchestrator gets them
Reordered == [i \in DOMAIN replay.calls |-> replay.calls[replay.order[i]]]

\* the last call an observer makes in a sequence of calls
LastCall(calls, observer_id) ==
    LET mine == { i \in DOMAIN calls : calls[i].observer_id = observer_id }
    IN  IF mine = {} THEN None
        ELSE Some(calls[CHOOSE i \in mine : \A j \in mine : j <= i])

\* C6: the consensus outcome of a tally depends only on the votes, not on their
\* order of arrival: of two orderings of the same register_observation calls in
\* which every observer's last call is the same, both leave every tally with the
\* same consensus_reached, final_state and confidence_score.
C6_OrderIndependent ==
    ( /\ replay.done = Len(replay.calls)
      /\ \A o \in ExampleObservers :
             LastCall(replay.calls, o) = LastCall(Reordered, o) )
    => /\ DOMAIN replay.first.quantum_tallies = DOMAIN replay.second.quantum_tallies
       /\ \A h \in DOMAIN replay.first.quantum_tallies :
              Outcome(replay.first.quantum_tallies[h])
                  = Outcome(replay.second.quantum_tallies[h])

----------------------------------------------------------------------------
(* Hash chain accumulator: properties *)

LastAccepted == last.called /\ NonEmpty(last.state, last.operation, last.proof)
LastRejected == last.called /\ ~NonEmpty(last.state, last.operation, last.proof)

\* C7: operation_count equals the number of compute_tally calls whose state,
\* operation and proof were all non-empty; such a call raises it by exactly 1 and
\* any other call leaves it as it was.
C7_OperationCountCountsCommits ==
    /\ computer.operation_count = Len(commits)
    /\ LastAccepted => computer.operation_count = last.before.operation_count + 1
    /\ LastRejected => computer.operation_count = last.before.operation_count

\* Two accepted commits, then a call with an empty argument.
C7_Witness ==
    /\ Len(commits) = 2
    /\ LastRejected
    /\ computer.operation_count = 2

\* C8: once a commit was accepted, previous_hash is the current_hash the
\* accumulator held immediately before the most recent accepted commit.
C8_PreviousHashIsPriorCurrent ==
    Len(commits) > 0 =>
        computer.previous_hash = commits[Len(commits)].before.current_hash

\* A second accepted commit, so the saved hash is that of the first commit.
C8_Witness ==
    /\ Len(commits) = 2
    /\ LastAccepted
    /\ computer.previous_hash = commits[1].result.hash
    /\ computer.previous_hash # ZeroHash

\* C9: a compute_tally call with an empty state, operation or proof returns the
\* accumulator's current hash and operation_count and leaves current_hash,
\* previous_hash and operation_count as they were.
C9_EmptyInputIsNoOp ==
    LastRejected =>
        /\ last.result = TallyResult(last.before.current_hash, last.before.operation_count)
        /\ computer = last.before

\* A call with only the proof empty, on an accumulator that holds two commits.
C9_Witness ==
    /\ last.called
    /\ last.state # <<>> /\ last.operation # <<>> /\ last.proof = <<>>
    /\ computer.operation_count = 2
    /\ computer.previous_hash # computer.current_hash

\* C10: right after an accepted compute_tally(state, operation, proof) returned r,
\* verify_tally(r, state, operation, proof) on the same accumulator is true.
C10_VerifyAfterCommit ==
    /\ LastAccepted =>
          verify_tally(computer, last.result, last.state, last.operation, last.proof)
    /\ (LastAccepted /\ verified.done /\ verified.commit = Len(commits)) => verified.ok

\* The third commit in a row has been verified.
C10_Witness ==
    /\ LastAccepted
    /\ Len(commits) = 3
    /\ verified.done /\ verified.commit = 3 /\ verified.ok

InStep == twin.taken = 1..Len(twin.log)

\* C12: two TallyComputers that start fresh and are given the same calls hold
\* the same hash and operation_count after every call and returned the same
\* results; after one accepted commit the operation_count of both is 1.
C12_SameCommitsSameHashes ==
    InStep =>
        /\ get_current_state(twin.first) = get_current_state(twin.second)
        /\ twin.both => twin.result1 = twin.result2
        /\ Len(twin.log) = 1 =>
              /\ twin.first.operation_count = 1 /\ twin.second.operation_count = 1
              /\ twin.log[1].result.operation_count = 1

\* Two TallyComputers built with different precisions hold the same non-zero
\* hash after the same two commits.
C12_Witness ==
    /\ InStep /\ twin.both /\ Len(twin.log) = 2
    /\ twin.first.precision # twin.second.precision
    /\ twin.first.current_hash = twin.second.current_hash
    /\ twin.first.current_hash # ZeroHash

\* C13: when the first TallyComputer has processed two commits from fresh, a
\* TallyComputer that has processed only one of the two returns false from
\* verify_tally against the result of the two.
C13_OneOfTwoDoesNotVerify ==
    (Len(twin.log) = 2 /\ Cardinality(twin.taken) = 1 /\ twin.verified.done) =>
        ~twin.verified.ok

\* The second TallyComputer holds only the second of the two commits and was
\* asked to verify the result of the two with that commit's arguments.
C13_Witness ==
    /\ Len(twin.log) = 2 /\ twin.taken = {2}
    /\ twin.verified.done /\ twin.verified.commit = 2 /\ ~twin.verified.ok
    /\ twin.second.operation_count = 1

\* C18: a try_reach_consensus call with a state hash that has no tally returns
\* the failure value, opens no tally and changes no tally.
C18_UnknownHashIsAnError ==
    [][(caller'.op = "try_reach_consensus"
          /\ caller'.state_hash \notin DOMAIN orchestrator.quantum_tallies)
       => (/\ caller'.result = "Err(Tally not found)"
           /\ orchestrator' = orchestrator)]_vars

\* The call was made for a state nobody registered while another state has a
\* tally with votes.
C18_Witness ==
    /\ caller.op = "try_reach_consensus"
    /\ caller.result = "Err(Tally not found)"
    /\ caller.state_hash \notin DOMAIN orchestrator.quantum_tallies
    /\ \E h \in DOMAIN orchestrator.quantum_tallies :
          orchestrator.quantum_tallies[h].observer_votes # {}

\* C19: every register_observation and try_reach_consensus call returns Ok or
\* Err; none panics or fails to return.
C19_CallsReturn ==
    caller.result \in {"none", "Ok(())", "Ok(true)", "Ok(false)", "Err(Tally not found)"}

----------------------------------------------------------------------------
(* TallyLayer: properties *)

\* C30: compute_state_transition with an empty state, operation or proof returns
\* an error and leaves current_hash, previous_hash and operation_count as they
\* were; with non-empty arguments it returns the new current_hash, raises
\* operation_count by exactly one, and verify_transition with the same arguments
\* and the returned hash, called next, returns true.
C30_TransitionCommitsAndVerifies ==
    /\ layer.op = "compute_state_transition" =>
          IF NonEmpty(layer.state, layer.operation, layer.proof)
          THEN /\ layer.result.ok
               /\ layer.result.hash = layer.self.current_hash
               /\ get_operation_count(layer.self) = get_operation_count(layer.before) + 1
               /\ verify_transition(layer.self, layer.state, layer.operation, layer.proof,
                                    layer.result.hash)
          ELSE /\ ~layer.result.ok
               /\ layer.self = layer.before
    /\ layer.op = "verify_transition" => layer.verified

\* An empty-argument call was refused after a commit, and a later commit on a
\* TallyLayer that already held one was verified.
C30_Witness ==
    /\ layer.op = "verify_transition"
    /\ layer.verified
    /\ layer.self.operation_count = 2
    /\ layer.calls = 3

----------------------------------------------------------------------------
(* Orchestrator: the votes of a tally and the frame of register_observation *)

\* C28: in every reachable state of the Orchestrator, each vote held by the
\* tally filed under hash h has an observed_state whose hash is h; the votes of
\* one tally therefore carry one observed state, and votes for different states
\* are never counted in one tally.
C28_VotesMatchTheirTally ==
    \A h \in DOMAIN Tallies :
        \A v \in Tallies[h].observer_votes :
            /\ calculate_state_hash(v.observed_state) = h
            /\ \A w \in Tallies[h].observer_votes : w.observed_state = v.observed_state

\* Two states have been voted for, one of them by two observers at least.
C28_Witness ==
    /\ Cardinality(DOMAIN Tallies) = 2
    /\ \A h \in DOMAIN Tallies : Tallies[h].observer_votes # {}
    /\ \E h \in DOMAIN Tallies : Cardinality(Tallies[h].observer_votes) >= 2

\* C29: a register_observation call leaves the Orchestrator's TallyRecorder
\* (its partition trackers, observation_count and hash-chain state) as it was,
\* changes no tally other than the one filed under the hash of the submitted
\* state, and changes no reality layer that existed; it adds at most the tally
\* of that hash and the layer of the submitted id.
C29_RegisterTouchesOneTally ==
    [][(caller'.op = "register_observation" /\ caller'.calls = caller.calls + 1) =>
          /\ orchestrator'.tally_recorder = orchestrator.tally_recorder
          /\ DOMAIN orchestrator'.quantum_tallies
                 = DOMAIN orchestrator.quantum_tallies \cup {caller'.state_hash}
          /\ \A h \in DOMAIN orchestrator.quantum_tallies :
                 h # caller'.state_hash =>
                     orchestrator'.quantum_tallies[h] = orchestrator.quantum_tallies[h]
          /\ DOMAIN orchestrator'.reality_layers
                 = DOMAIN orchestrator.reality_layers \cup {caller'.layer_id}
          /\ \A l \in DOMAIN orchestrator.reality_layers :
                 orchestrator'.reality_layers[l] = orchestrator.reality_layers[l]]_vars

\* A register_observation call was made while a tally of another state held
\* votes and the layer existed.
C29_Witness ==
    /\ caller.op = "register_observation"
    /\ caller.calls >= 2
    /\ \E h \in DOMAIN Tallies : h # caller.state_hash /\ Tallies[h].observer_votes # {}

----------------------------------------------------------------------------
(* Hash chain accumulator: two callers *)

\* the TallyComputer after the two calls made one after the other, caller
\* first before the other
Replayed(first) ==
    compute_tally(
        compute_tally(TallyComputerNew, race.args[first][1], race.args[first][2],
                      race.args[first][3]).self,
        race.args[3 - first][1], race.args[3 - first][2], race.args[3 - first][3]).self

BothDone == \A p \in Callers : race.pc[p] = "done"

----------------------------------------------------------------------------
(* PreciseFloat: properties *)

\* the most recent operation returned a value
Returned == arith.op # "none" /\ arith.result.fault = 0

\* C23: every value that a constructor or an arithmetic operation returns has a
\* scale in 1..18.
C23_ScaleInRange == Returned => arith.result.scale \in 1..18

\* C24: add, sub and the operators +, *, / return a value for every pair of
\* operands, a zero divisor included; none panics.
C24_ArithmeticIsTotal ==
    arith.op \in {"add", "sub", "+", "*", "* &", "/", "/ &"} => arith.result.fault = 0

\* C25: cos, sin, ln and exp return for every argument, negative, zero or
\* positive; each of their loops is left.
C25_FunctionsTerminate ==
    arith.op \in {"cos", "sin", "ln", "exp"} => arith.result.fault \notin {3, 4}

----------------------------------------------------------------------------
(* TallyRecorder: properties *)

\* the most recent call was record_observation with vectors of different lengths
Mismatched ==
    /\ observation.op = "record_observation"
    /\ Len(observation.amplitudes) # Len(observation.phases)

\* C17: record_observation called with amplitude and phase vectors of different
\* lengths returns the error and leaves the recorder as it was: the observation
\* count, the trackers with all their fields, the hash chain and the latest
\* result, and with them the metrics.
C17_MismatchChangesNothing ==
    Mismatched =>
        /\ observation.result = "Err(Amplitude and phase vectors must have same length)"
        /\ recorder = observation.before
        /\ \A order \in Orders(DOMAIN recorder.reality_layers) :
              get_metrics(recorder, order) = get_metrics(observation.before, order)

\* a call with one amplitude and two phases, made after earlier calls
C17_Witness ==
    /\ Mismatched
    /\ Len(observation.amplitudes) = 1 /\ Len(observation.phases) = 2
    /\ observation.calls = MaxObservations
    /\ observation.result = "Err(Amplitude and phase vectors must have same length)"

\* the most recent call was record_observation with vectors of one length
EqualLengths ==
    /\ observation.op = "record_observation"
    /\ Len(observation.amplitudes) = Len(observation.phases)

\* C20: record_observation returns Ok, and does not panic, for every call with
\* amplitude and phase vectors of equal length, whichever partitions are tracked.
C20_EqualLengthsReturnOk == EqualLengths => observation.result = "Ok"

\* C15: after any sequence of record_observation calls the operation_count of
\* the recorder's hash chain, and that of the latest tally result, equal the
\* number of observations the recorder has counted.
C15_ObservationsAreCommitted ==
    /\ recorder.tally_computer.operation_count = recorder.observation_count
    /\ recorder.latest_result # None =>
           recorder.latest_result[1].operation_count = recorder.observation_count

\* the layer ids of the record_observation calls that returned Ok
Succeeded == { observation.succeeded[i] : i \in DOMAIN observation.succeeded }

\* the sum of observer_count over the trackers with ids in ids
RECURSIVE Observers_in(_, _)
Observers_in(self, ids) ==
    IF ids = {} THEN 0
    ELSE LET id == CHOOSE id \in ids : TRUE
         IN  self.reality_layers[id].observer_count + Observers_in(self, ids \ {id})

\* C21: a tracker exists for a partition exactly when a record_observation call
\* for it has returned Ok; no call removes a tracker, and the active_layers that
\* get_metrics reports is the number of partitions so observed.
C21_TrackersFollowSuccesses ==
    /\ DOMAIN recorder.reality_layers = Succeeded
    /\ DOMAIN observation.before.reality_layers \subseteq DOMAIN recorder.reality_layers
    /\ observation.op = "get_metrics" =>
           observation.metrics.active_layers = Cardinality(Succeeded)

\* C27: after any sequence of record_observation calls the observation count is
\* the number of calls that returned Ok and the sum of the trackers'
\* observer_count; a call that returned Ok for a partition raised that
\* partition's observer_count by one and no other's.
C27_CountsEqualSuccesses ==
    /\ recorder.observation_count = Len(observation.succeeded)
    /\ recorder.observation_count = Observers_in(recorder, DOMAIN recorder.reality_layers)
    /\ (observation.op = "record_observation" /\ observation.result = "Ok") =>
           \A id \in DOMAIN recorder.reality_layers :
               recorder.reality_layers[id].observer_count =
                   (IF id \in DOMAIN observation.before.reality_layers
                    THEN observation.before.reality_layers[id].observer_count ELSE 0)
                   + (IF id = observation.layer_id THEN 1 ELSE 0)

====
